---- MODULE Spec2Model ----
(***************************************************************************)
(* Historic data manager of the flood chart prototype                      *)
(* (client/javascripts/historic-data.js): CSV parsing, the IndexedDB slot, *)
(* merge with the live series, time-range filter and style-B downsampling. *)
(*                                                                         *)
(* Time.  Instants are whole seconds since the epoch.  The source counts   *)
(* milliseconds; FIVE_YEARS_MS in milliseconds (157 680 000 000) does not  *)
(* fit TLC's 32-bit integers, so every duration below is the source's      *)
(* duration divided by MS_PER_SECOND.  JavaScript numbers are doubles and  *)
(* none of these products overflows there.                                 *)
(*                                                                         *)
(* Strings.  A string is a record [form, inst, num].  For a word form is   *)
(* the word itself.  For a date form is the spelling and inst the instant  *)
(* `new Date(string)` yields; for a numeral form is the kind of numeral    *)
(* and num the number parseFloat reads.  Two strings are equal (===, Map   *)
(* key, indexOf) when all fields are equal; two different spellings of a   *)
(* date can parse to the same instant.                                     *)
(***************************************************************************)
EXTENDS Integers, Sequences, FiniteSets, TLC

VARIABLES
    pc,            \* which component is running and where it stands
    historicData,  \* mergeData: first argument
    realtimeData,  \* mergeData: second argument
    merged,        \* mergeData: returned array
    remerged,      \* mergeData(merged, realtimeData): returned array
    slot,          \* IndexedDB: what the object store holds under DATA_KEY
    pending,       \* IndexedDB: the slot as the open transaction sees it
    op,            \* storage call in flight or last settled: [name, arg]
    outcome,       \* the promise that call returned: [state, val]
    failed,        \* history: a storage failure occurred during that call
    escaped,       \* history: some failure so far was not answered by the sentinel
    lastSave,      \* history: argument of the most recent saveHistoricData call
    clearedSince,  \* history: clearHistoricData was called after that save
    committed,     \* history: dataset of the last committed write, if any
    csvContent,    \* parseHistoricCSV: the text, a sequence of lines
    parsed,        \* parseHistoricCSV: what the call threw or returned
    series,        \* filterDataByTimeRange / downsampleForStyleB: the data argument
    range,         \* the range token of the call
    filtered,      \* filterDataByTimeRange: returned array
    widerRange,    \* the range token of a second filter call on the same array
    filteredWider, \* what that second call returned
    tzOffset,      \* seconds the browser's local time is ahead of UTC
    downsampled,   \* downsampleForStyleB: returned array
    points,        \* simplify: the points argument
    tolerance,     \* simplify: the tolerance argument
    simplified,    \* simplify: returned array
    variant,       \* chart: which renderer file is loaded
    chartLines,    \* chart: `lines`, the flattened points used for hit-testing
    xScale,        \* chart: the time scale, [defined, d0, d1, width]
    pointerX,      \* chart: x of the pointer, in the plot's coordinates
    dataPoint,     \* chart: what findDataPointByX returned
    container,     \* chart: the container element exists
    chartData,     \* chart: the data argument of lineChart
    rect,          \* chart: bounding rectangle of the container, [w, h]
    isMobile,      \* chart: the viewport is under the mobile breakpoint
    width,         \* chart: closure variable width
    height,        \* chart: closure variable height
    margin,        \* chart: closure variable margin
    yScale,        \* chart: closure variable yScale, [defined, height]
    captured,      \* chart: margin, lines, xScale as setupEventHandlers received them
    tipCaptured,   \* chart: xScale, yScale, height as createTooltipManager received them
    interfaceType, \* chart: null, "touch" or "mouse"
    lastClient,    \* chart: lastClientX, lastClientY
    tooltipVisible,  \* chart: class tooltip--visible is set
    locatorVisible,  \* chart: class locator--visible is set
    handlerThrew,  \* history: the last event handler ended in a TypeError
    touchPending,  \* history: touchstart seen, no mousemove delivered since
    fought,        \* history: a mousemove after a touchstart reached the tooltip
    used,          \* history: render state the last interaction worked with
    atUse,         \* history: render state of the latest pass at that time
    dom,           \* chart: what the container element holds
    readings,      \* formatTelemetryData: the readings argument
    telemetry,     \* formatTelemetryData: returned object
    dataBefore,    \* history: the data object as it was handed to Processing
    yDomain,       \* calculateYScaleDomain: returned {min, max}, in thirds
    timeout,       \* toggletip: closure variable timeout, a timer id
    currentToggletip,  \* toggletip: closure variable currentToggletip
    timers,        \* toggletip: the timers set and neither cleared nor run
    nextTimer,     \* toggletip: the id window.setTimeout returns next
    openTips,      \* toggletip: elements of class defra-toggletip--open
    quiet,         \* history: closeToggletips ran and no open was asked for since
    calls          \* IndexedDB: the storage calls started, settled or not, in order

mergeVars == <<historicData, realtimeData, merged, remerged>>

storeVars == <<slot, pending, op, outcome, failed, escaped, lastSave, clearedSince, committed>>

csvVars == <<csvContent, parsed>>

rangeVars == <<series, range, filtered, widerRange, filteredWider, tzOffset, downsampled>>

simplifyVars == <<points, tolerance, simplified>>

\* the chart beyond hit-testing
chartRest ==
    <<container, chartData, rect, isMobile, width, height, margin, yScale, captured,
      tipCaptured, interfaceType, lastClient, tooltipVisible, locatorVisible,
      handlerThrew, touchPending, fought, used, atUse, dom>>

processVars == <<readings, telemetry, dataBefore, yDomain>>

toggleVars == <<timeout, currentToggletip, timers, nextTimer, openTips, quiet>>

overlapVars == <<calls>>

chartVars == <<variant, chartLines, xScale, pointerX, dataPoint, chartRest>>

vars ==
    <<pc, mergeVars, storeVars, csvVars, rangeVars, simplifyVars, chartVars, processVars,
      toggleVars, overlapVars>>

\* what each component leaves alone
restOfMerge ==
    <<storeVars, csvVars, rangeVars, simplifyVars, chartVars,
      processVars, toggleVars, overlapVars>>
restOfStore ==
    <<mergeVars, csvVars, rangeVars, simplifyVars, chartVars,
      processVars, toggleVars, overlapVars>>
restOfCsv ==
    <<mergeVars, storeVars, rangeVars, simplifyVars, chartVars,
      processVars, toggleVars, overlapVars>>
restOfRange ==
    <<mergeVars, storeVars, csvVars, simplifyVars, chartVars,
      processVars, toggleVars, overlapVars>>
restOfSimplify ==
    <<mergeVars, storeVars, csvVars, rangeVars, chartVars,
      processVars, toggleVars, overlapVars>>
restOfChart ==
    <<mergeVars, storeVars, csvVars, rangeVars, simplifyVars, processVars, toggleVars, overlapVars>>
restOfToggle ==
    <<mergeVars, storeVars, csvVars, rangeVars, simplifyVars, chartVars, processVars,
      overlapVars>>

-----------------------------------------------------------------------------
(* Program constants, historic-data.js lines 10-19 *)

FIVE_YEARS == 5
DAYS_PER_YEAR == 365
HOURS_PER_DAY == 24
MINUTES_PER_HOUR == 60
SECONDS_PER_MINUTE == 60
FIVE_DAYS == 5
THIRTY_DAYS == 30
SIX_MONTHS == 6

FIVE_YEARS_MS == FIVE_YEARS * DAYS_PER_YEAR * HOURS_PER_DAY * MINUTES_PER_HOUR * SECONDS_PER_MINUTE

MS_PER_DAY == HOURS_PER_DAY * MINUTES_PER_HOUR * SECONDS_PER_MINUTE

\* Date.now() / new Date(): the instant of the call, 2025-11-05T00:00:00Z.
NOW == 20397 * MS_PER_DAY

\* Three instants of recent readings, an hour apart
T1 == NOW - 3 * MINUTES_PER_HOUR * SECONDS_PER_MINUTE
T2 == NOW - 2 * MINUTES_PER_HOUR * SECONDS_PER_MINUTE
T3 == NOW - 1 * MINUTES_PER_HOUR * SECONDS_PER_MINUTE

-----------------------------------------------------------------------------
(* JavaScript values *)

\* null / undefined where an array is expected
Null == [isArray |-> FALSE, items |-> <<>>]

Arr(s) == [isArray |-> TRUE, items |-> s]

\* parseHistoricCSV is not running
CsvIdle ==
    /\ csvContent = <<>>
    /\ parsed = [threw |-> FALSE, error |-> "", data |-> <<>>]

\* neither filterDataByTimeRange nor downsampleForStyleB is running
RangeIdle ==
    /\ series = Null
    /\ range = "5d"
    /\ filtered = <<>>
    /\ widerRange = "5d"
    /\ filteredWider = <<>>
    /\ tzOffset = 0
    /\ downsampled = <<>>

\* let xScale: no scale assigned yet
NoScale == [defined |-> FALSE, d0 |-> 0, d1 |-> 0, width |-> 0]

\* findDataPointByX returned null
NoPoint == [isNull |-> TRUE, point |-> [dateTime |-> [form |-> "", inst |-> 0, num |-> 0], value |-> 0]]

\* let width, height: a number or undefined
NoPx == [defined |-> FALSE, n |-> 0]

Px(n) == [defined |-> TRUE, n |-> n]

\* let margin
NoMargin == [defined |-> FALSE, top |-> 0, bottom |-> 0, left |-> 0, right |-> 0]

\* let yScale
NoYScale == [defined |-> FALSE, height |-> 0]

\* the render state an interaction works with: margin, lines and xScale of
\* the event handler, xScale, yScale and height of the tooltip manager
RenderStateOf(m, ls, xs, tipX, tipY, tipH) ==
    [margin |-> m, lines |-> ls, xScale |-> xs, tipXScale |-> tipX, tipYScale |-> tipY,
     tipHeight |-> tipH]

NoRenderState == RenderStateOf(NoMargin, <<>>, NoScale, NoScale, NoYScale, NoPx)

\* arguments of setupEventHandlers
HandlerArgs(m, ls, xs) == [margin |-> m, lines |-> ls, xScale |-> xs]

\* arguments of createTooltipManager
TooltipArgs(xs, ys, h) == [xScale |-> xs, yScale |-> ys, height |-> h]

\* lastClientX, lastClientY before the first mousemove
NoClient == [x |-> 0 - 1, y |-> 0 - 1]

\* no lineChart call so far
ChartRestIdle ==
    /\ container = FALSE
    /\ chartData = [present |-> FALSE, observed |-> Null, forecast |-> Null, type |-> "river"]
    /\ rect = [w |-> 0, h |-> 0]
    /\ isMobile = FALSE
    /\ width = NoPx
    /\ height = NoPx
    /\ margin = NoMargin
    /\ yScale = NoYScale
    /\ captured = HandlerArgs(NoMargin, <<>>, NoScale)
    /\ tipCaptured = TooltipArgs(NoScale, NoYScale, NoPx)
    /\ interfaceType = "null"
    /\ lastClient = NoClient
    /\ tooltipVisible = FALSE
    /\ locatorVisible = FALSE
    /\ handlerThrew = FALSE
    /\ touchPending = FALSE
    /\ fought = FALSE
    /\ used = NoRenderState
    /\ atUse = NoRenderState
    /\ dom = "nothing"

\* no chart on the page
ChartIdle ==
    /\ variant = "part_006"
    /\ chartLines = <<>>
    /\ xScale = NoScale
    /\ pointerX = 0
    /\ dataPoint = NoPoint
    /\ ChartRestIdle

\* no timer id
NoTimer == 0

\* createToggletips was not called
ToggleIdle ==
    /\ timeout = NoTimer
    /\ currentToggletip = "null"
    /\ timers = {}
    /\ nextTimer = 1
    /\ openTips = {}
    /\ quiet = FALSE

\* no storage call was started alongside another
OverlapIdle == calls = <<>>

\* calculateYScaleDomain has not returned
NoDomain == [defined |-> FALSE, min |-> 0, max |-> 0]

\* formatTelemetryData has not returned
NoTelemetry ==
    [defined |-> FALSE, observed |-> <<>>, forecast |-> <<>>,
     latestDateTime |-> [form |-> "", inst |-> 0, num |-> 0], type |-> "river"]

\* nothing is being formatted or processed outside a chart
FormatIdle ==
    /\ readings = <<>>
    /\ telemetry = NoTelemetry
    /\ dataBefore = [present |-> FALSE, observed |-> Null, forecast |-> Null, type |-> "river"]
    /\ yDomain = NoDomain

\* simplify is not running
SimplifyIdle ==
    /\ points = <<>>
    /\ tolerance = 0
    /\ simplified = <<>>

\* mergeData is not running
MergeIdle ==
    /\ historicData = Null
    /\ realtimeData = Null
    /\ merged = <<>>
    /\ remerged = <<>>

\* Spellings that `new Date` parses: "2024-01-15T10:00:00" and the same
\* instant written with milliseconds, "2024-01-15T10:00:00.000".
DateForms == {"iso", "iso.ms"}

IsValidDate(s) == s.form \in DateForms

\* The numeral a date string starts with, its year (to the day for the
\* instants used here: years are counted as 365 days)
YearOf(inst) == 1970 + inst \div (DAYS_PER_YEAR * MS_PER_DAY)

DateStr(form, inst) == [form |-> form, inst |-> inst, num |-> YearOf(inst)]

Word(w) == [form |-> w, inst |-> 0, num |-> 0]

Numeral(form, n) == [form |-> form, inst |-> 0, num |-> n]

\* new Date(s).getTime(); only read where IsValidDate(s), NaN otherwise
ParseDate(s) == s.inst

RangeOf(s) == {s[i] : i \in DOMAIN s}

\* how many times p occurs in s
Count(s, p) == Cardinality({i \in DOMAIN s : s[i] = p})

SeqsUpTo(S, n) == UNION {[1..k -> S] : k \in 0..n}

-----------------------------------------------------------------------------
(* mergeData *)

\* realtimeMap.has(key): the Map is keyed by the dateTime string itself
RealtimeMapHas(realtime, key) == \E i \in DOMAIN realtime : realtime[i].dateTime = key

\* comparator of merged.sort: new Date(a.dateTime) - new Date(b.dateTime) > 0
DateAfter(a, b) == ParseDate(a.dateTime) > ParseDate(b.dateTime)

\* InsertSorted of a sort that is not stable: an item goes in front of the
\* items it compares equal to
RECURSIVE InsertSortedBeforeEqual(_, _)
InsertSortedBeforeEqual(s, x) ==
    IF s = <<>> THEN <<x>>
    ELSE IF ~DateAfter(x, s[Len(s)])
         THEN Append(InsertSortedBeforeEqual(SubSeq(s, 1, Len(s) - 1), x), s[Len(s)])
         ELSE Append(s, x)

\* Array.prototype.sort is stable: an item goes behind every item that does
\* not compare greater than it.
RECURSIVE InsertSorted(_, _)
InsertSorted(s, x) ==
    IF s = <<>> THEN <<x>>
    ELSE IF DateAfter(s[Len(s)], x)
         THEN Append(InsertSorted(SubSeq(s, 1, Len(s) - 1), x), s[Len(s)])
         ELSE Append(s, x)

RECURSIVE SortByDateTime(_)
SortByDateTime(s) ==
    IF s = <<>> THEN <<>>
    ELSE InsertSorted(SortByDateTime(SubSeq(s, 1, Len(s) - 1)), s[Len(s)])

NonOverlapping(historic, realtime) ==
    SelectSeq(historic, LAMBDA item : ~RealtimeMapHas(realtime, item.dateTime))

\* mergeData that sorts what it passes through
mergeDataSortAlways(historic, realtime) ==
    IF ~historic.isArray \/ Len(historic.items) = 0
    THEN IF realtime.isArray THEN SortByDateTime(realtime.items) ELSE <<>>
    ELSE IF ~realtime.isArray \/ Len(realtime.items) = 0
    THEN SortByDateTime(historic.items)
    ELSE SortByDateTime(realtime.items \o NonOverlapping(historic.items, realtime.items))

\* mergeData without its final sort
mergeDataUnsorted(historic, realtime) ==
    IF ~historic.isArray \/ Len(historic.items) = 0
    THEN IF realtime.isArray THEN realtime.items ELSE <<>>
    ELSE IF ~realtime.isArray \/ Len(realtime.items) = 0
    THEN historic.items
    ELSE realtime.items \o NonOverlapping(historic.items, realtime.items)

\* mergeData without the realtimeMap.has test
mergeDataKeepAll(historic, realtime) ==
    IF ~historic.isArray \/ Len(historic.items) = 0
    THEN IF realtime.isArray THEN realtime.items ELSE <<>>
    ELSE IF ~realtime.isArray \/ Len(realtime.items) = 0
    THEN historic.items
    ELSE SortByDateTime(realtime.items \o historic.items)

mergeData(historic, realtime) ==
    IF ~historic.isArray \/ Len(historic.items) = 0
    THEN IF realtime.isArray THEN realtime.items ELSE <<>>
    ELSE IF ~realtime.isArray \/ Len(realtime.items) = 0
    THEN historic.items
    ELSE SortByDateTime(realtime.items \o NonOverlapping(historic.items, realtime.items))

-----------------------------------------------------------------------------
(* The IndexedDB slot: saveHistoricData, loadHistoricData, clearHistoricData *)
(*                                                                           *)
(* Each call is `try { const db = await openDatabase(); return new           *)
(* Promise(executor) } catch { return sentinel }`.  The await sits inside    *)
(* the try, so a failed open reaches the catch.  The promise built by the    *)
(* executor is returned, not awaited: when the executor throws or calls      *)
(* reject, the promise of the async function is rejected with that error     *)
(* and the catch block does not run.                                         *)
(*                                                                           *)
(* resolve is called from request.onsuccess; the transaction commits (or     *)
(* aborts) after that, and nothing listens for the abort.  Transactions on   *)
(* one object store run one after the other, so the next call's transaction  *)
(* starts after this one has finished: the model lets the next call start    *)
(* when the transaction of the previous one is over.                         *)

\* JavaScript values a storage promise settles with
JsBool(b) == [t |-> "boolean", b |-> b, items |-> <<>>]
JsNull == [t |-> "null", b |-> FALSE, items |-> <<>>]
JsArray(s) == [t |-> "array", b |-> FALSE, items |-> s]
JsError == [t |-> "error", b |-> FALSE, items |-> <<>>]

Pending == [state |-> "pending", val |-> JsNull]
Resolved(v) == [state |-> "resolved", val |-> v]
Rejected == [state |-> "rejected", val |-> JsError]

\* store.get on a key that holds nothing yields undefined
Undefined == [present |-> FALSE, data |-> <<>>]
Stored(d) == [present |-> TRUE, data |-> d]

\* store.put adding to what is stored instead of replacing it
StorePutAppend(s, data) == Stored(IF s.present THEN s.data \o data ELSE data)

\* store.put(data, DATA_KEY): the structured clone of data replaces the value
StorePut(s, data) == Stored(data)

\* store.delete(DATA_KEY)
StoreDelete(s) == Undefined

\* request.result || null: undefined is falsy, every array is truthy
ResultOrNull(s) == IF s.present THEN JsArray(s.data) ELSE JsNull

\* what the catch block of each function returns
CatchValue(name) == IF name = "load" THEN JsNull ELSE JsBool(FALSE)

NoOp == [name |-> "none", arg |-> <<>>]

StoreIdle ==
    /\ slot = Undefined
    /\ pending = Undefined
    /\ op = NoOp
    /\ outcome = Pending
    /\ failed = FALSE
    /\ escaped = FALSE
    /\ lastSave = Undefined
    /\ clearedSince = FALSE
    /\ committed = Undefined

MaxStoreLen == 1

StorePoints == [dateTime : {DateStr("iso", T1), DateStr("iso", T2)}, value : {1}]

Datasets == SeqsUpTo(StorePoints, MaxStoreLen)

InitStore ==
    /\ pc = "idle"
    /\ StoreIdle
    /\ ChartIdle
    /\ SimplifyIdle
    /\ MergeIdle
    /\ CsvIdle
    /\ RangeIdle
    /\ FormatIdle
    /\ ToggleIdle
    /\ OverlapIdle

\* saveHistoricData(data) is called: indexedDB.open is requested
CallSave(data) ==
    /\ pc = "idle"
    /\ pc' = "opening"
    /\ op' = [name |-> "save", arg |-> data]
    /\ outcome' = Pending
    /\ failed' = FALSE
    /\ lastSave' = Stored(data)
    /\ clearedSince' = FALSE
    /\ UNCHANGED <<escaped, slot, pending, committed, restOfStore>>

\* loadHistoricData() is called
CallLoad ==
    /\ pc = "idle"
    /\ pc' = "opening"
    /\ op' = [name |-> "load", arg |-> <<>>]
    /\ outcome' = Pending
    /\ failed' = FALSE
    /\ UNCHANGED <<escaped, slot, pending, lastSave, clearedSince, committed, restOfStore>>

\* clearHistoricData() is called
CallClear ==
    /\ pc = "idle"
    /\ pc' = "opening"
    /\ op' = [name |-> "clear", arg |-> <<>>]
    /\ outcome' = Pending
    /\ failed' = FALSE
    /\ clearedSince' = TRUE
    /\ UNCHANGED <<escaped, slot, pending, lastSave, committed, restOfStore>>

\* request.onerror of indexedDB.open: the awaited promise rejects inside the
\* try, the catch logs and returns the sentinel
OpenError ==
    /\ pc = "opening"
    /\ pc' = "idle"
    /\ outcome' = Resolved(CatchValue(op.name))
    /\ failed' = TRUE
    /\ UNCHANGED <<escaped, slot, pending, op, lastSave, clearedSince, committed, restOfStore>>

\* open succeeded, the executor runs, and db.transaction or the store call
\* throws: the returned promise is rejected, outside the reach of the catch
ExecutorThrows ==
    /\ pc = "opening"
    /\ pc' = "idle"
    /\ outcome' = Rejected
    /\ failed' = TRUE
    /\ escaped' = TRUE
    /\ UNCHANGED <<slot, pending, op, lastSave, clearedSince, committed, restOfStore>>

\* open succeeded, the executor created the transaction and issued the
\* put / get / delete request
IssueRequest ==
    /\ pc = "opening"
    /\ pc' = "request"
    /\ pending' = slot
    /\ UNCHANGED <<escaped, slot, op, outcome, failed, lastSave, clearedSince, committed, restOfStore>>

\* request.onsuccess: resolve(true) or resolve(request.result || null)
RequestSuccess ==
    /\ pc = "request"
    /\ pc' = "committing"
    /\ pending' = CASE op.name = "save" -> StorePut(pending, op.arg)
                     [] op.name = "clear" -> StoreDelete(pending)
                     [] OTHER -> pending
    /\ outcome' = IF op.name = "load" THEN Resolved(ResultOrNull(pending))
                                      ELSE Resolved(JsBool(TRUE))
    /\ UNCHANGED <<escaped, slot, op, failed, lastSave, clearedSince, committed, restOfStore>>

\* request.onerror: reject(request.error); the transaction aborts
RequestError ==
    /\ pc = "request"
    /\ pc' = "idle"
    /\ outcome' = Rejected
    /\ failed' = TRUE
    /\ escaped' = TRUE
    /\ UNCHANGED <<slot, pending, op, lastSave, clearedSince, committed, restOfStore>>

\* transaction.oncomplete: the write is durable, db.close()
TransactionComplete ==
    /\ pc = "committing"
    /\ pc' = "idle"
    /\ slot' = pending
    /\ committed' = CASE op.name = "save" -> Stored(op.arg)
                       [] op.name = "clear" -> Undefined
                       [] OTHER -> committed
    /\ UNCHANGED <<escaped, pending, op, outcome, failed, lastSave, clearedSince, restOfStore>>

\* a readwrite transaction fails to commit (quota, disk) after its request
\* succeeded: the write is rolled back, the promise is already resolved
TransactionAbort ==
    /\ pc = "committing"
    /\ op.name \in {"save", "clear"}
    /\ pc' = "idle"
    /\ failed' = TRUE
    /\ escaped' = TRUE
    /\ UNCHANGED <<slot, pending, op, outcome, lastSave, clearedSince, committed, restOfStore>>

NextStore ==
    \/ \E data \in Datasets : CallSave(data)
    \/ CallLoad
    \/ CallClear
    \/ OpenError
    \/ ExecutorThrows
    \/ IssueRequest
    \/ RequestSuccess
    \/ RequestError
    \/ TransactionComplete
    \/ TransactionAbort

SpecStore == InitStore /\ [][NextStore]_vars

-----------------------------------------------------------------------------
(* Claims about the IndexedDB slot *)

LoadSettled == op.name = "load" /\ outcome.state # "pending"

\* C3 as stated: after any sequence of save, load and clear calls, each
\* completing before the next starts, load returns the argument of the most
\* recent save if no clear followed it, and null if there was no save or a
\* clear came after the last save.  Stated for the runs in which every
\* failure so far was answered by false or null, as C4 wants it.
C3_LoadReturnsMostRecentSave ==
    (LoadSettled /\ ~escaped) =>
        outcome = Resolved(IF lastSave.present /\ ~clearedSince
                           THEN JsArray(lastSave.data) ELSE JsNull)

\* C3 amended: the store holds at most one dataset, that of the most recent
\* save whose write was committed if no committed clear followed it; a save
\* or clear that fails leaves it as it was; a load that meets no storage
\* failure returns that dataset, or null when there is none.
C3_LoadReturnsLastCommittedSave ==
    /\ pc = "idle" => slot = committed
    /\ (LoadSettled /\ ~failed) =>
          outcome = Resolved(IF committed.present
                             THEN JsArray(committed.data) ELSE JsNull)

\* C3 witness: a save was committed, a later save of another dataset failed,
\* and a load then returned the committed dataset.
C3_Witness ==
    /\ LoadSettled /\ ~failed
    /\ committed.present /\ lastSave.present /\ ~clearedSince
    /\ lastSave.data # committed.data
    /\ outcome = Resolved(JsArray(committed.data))

\* C4: save, load and clear never reject or throw past their own boundary;
\* on every storage failure save and clear resolve to false and load
\* resolves to null.
C4_StorageFailuresBecomeSentinels ==
    /\ outcome.state # "rejected"
    /\ (pc = "idle" /\ op.name # "none" /\ failed) =>
          outcome = Resolved(CatchValue(op.name))

-----------------------------------------------------------------------------
(* parseHistoricCSV *)
(*                                                                           *)
(* The text is a sequence of lines, a line a sequence of raw fields (what    *)
(* split(',') yields), a raw field a string with or without the double       *)
(* quotes and blanks around it.  An empty line is the single empty field.    *)

Raw(quoted, text) == [quoted |-> quoted, text |-> text]

EmptyStr == Word("")

BlankLine == <<Raw(FALSE, EmptyStr)>>

\* line.trim() is the empty string
IsBlank(line) == line = BlankLine

\* v.replaceAll('"', '').trim()
Clean(raw) == raw.text

CleanLine(line) == [i \in DOMAIN line |-> Clean(line[i])]

RECURSIVE DropLeadingBlank(_)
DropLeadingBlank(text) ==
    IF text # <<>> /\ IsBlank(Head(text)) THEN DropLeadingBlank(Tail(text)) ELSE text

RECURSIVE DropTrailingBlank(_)
DropTrailingBlank(text) ==
    IF text # <<>> /\ IsBlank(text[Len(text)])
    THEN DropTrailingBlank(SubSeq(text, 1, Len(text) - 1))
    ELSE text

\* csvContent.trim().split('\n'): the empty string splits into one empty line
Lines(text) ==
    LET trimmed == DropTrailingBlank(DropLeadingBlank(text))
    IN  IF trimmed = <<>> THEN <<BlankLine>> ELSE trimmed

\* header.indexOf(name): 0 stands for -1, columns count from 1
IndexOf(header, name) ==
    IF \E i \in DOMAIN header : header[i] = name
    THEN CHOOSE i \in DOMAIN header :
            header[i] = name /\ \A j \in DOMAIN header : header[j] = name => i <= j
    ELSE 0

\* values[index]: undefined past the end of a short row
HasField(values, index) == index \in DOMAIN values

\* a string is falsy when it is empty
IsEmptyStr(s) == s.form = ""

\* Number.parseFloat: the longest numeric prefix; NaN when there is none
ParseFloat(s) ==
    CASE s.form \in {"decimal", "decimal+junk"} \cup DateForms ->
            [nan |-> FALSE, inf |-> FALSE, n |-> s.num]
      [] s.form = "Infinity" -> [nan |-> FALSE, inf |-> TRUE, n |-> 0]
      [] OTHER -> [nan |-> TRUE, inf |-> FALSE, n |-> 0]

\* date < fiveYearsAgo; every comparison with an Invalid Date is false
BeforeCutoff(s, cutoff) == IsValidDate(s) /\ ParseDate(s) < cutoff

\* one pass of the row loop: the point pushed for this line, if any
RowPoint(line, dateTimeIndex, valueIndex, fiveYearsAgo) ==
    LET values == CleanLine(line)
        hasDate == HasField(values, dateTimeIndex)
        value == IF HasField(values, valueIndex)
                 THEN ParseFloat(values[valueIndex])
                 ELSE [nan |-> TRUE, inf |-> FALSE, n |-> 0]
    IN  IF IsBlank(line) THEN <<>>
        ELSE IF ~hasDate \/ IsEmptyStr(values[dateTimeIndex]) \/ value.nan THEN <<>>
        ELSE IF BeforeCutoff(values[dateTimeIndex], fiveYearsAgo) THEN <<>>
        ELSE <<[dateTime |-> values[dateTimeIndex], value |-> value, _value |-> value]>>

RECURSIVE ParseRows(_, _, _, _, _)
ParseRows(lines, i, dateTimeIndex, valueIndex, fiveYearsAgo) ==
    IF i > Len(lines) THEN <<>>
    ELSE RowPoint(lines[i], dateTimeIndex, valueIndex, fiveYearsAgo)
            \o ParseRows(lines, i + 1, dateTimeIndex, valueIndex, fiveYearsAgo)

Threw(message) == [threw |-> TRUE, error |-> message, data |-> <<>>]

Returned(data) == [threw |-> FALSE, error |-> "", data |-> data]

\* parseHistoricCSV with && for || in the test of the column indices
parseHistoricCSVEitherColumn(text, now) ==
    LET lines == Lines(text)
        header == CleanLine(lines[1])
        dateTimeIndex == IndexOf(header, Word("dateTime"))
        valueIndex == IndexOf(header, Word("value"))
    IN  IF Len(lines) < 2 THEN Threw("CSV file is empty or invalid")
        ELSE IF dateTimeIndex = 0 /\ valueIndex = 0
        THEN Threw("CSV must contain \"dateTime\" and \"value\" columns")
        ELSE Returned(ParseRows(lines, 2, dateTimeIndex, valueIndex, now - FIVE_YEARS_MS))

parseHistoricCSV(text, now) ==
    LET lines == Lines(text)
        header == CleanLine(lines[1])
        dateTimeIndex == IndexOf(header, Word("dateTime"))
        valueIndex == IndexOf(header, Word("value"))
    IN  IF Len(lines) < 2 THEN Threw("CSV file is empty or invalid")
        ELSE IF dateTimeIndex = 0 \/ valueIndex = 0
        THEN Threw("CSV must contain \"dateTime\" and \"value\" columns")
        ELSE Returned(ParseRows(lines, 2, dateTimeIndex, valueIndex, now - FIVE_YEARS_MS))

-----------------------------------------------------------------------------
(* Inputs of the CSV check *)

MaxRows == 2

\* Header lines: the two-column form, the format of the hydrology download
\* reduced to four columns, the columns swapped, and headers that lack a
\* required name or spell it in another case.
Headers ==
    { <<"dateTime", "value">>,
      <<"measure", "dateTime", "date", "value">>,
      <<"value", "dateTime">>,
      <<"DateTime", "value">>,
      <<"dateTime", "Value">>,
      <<"measure", "date">>,
      <<"dateTime">> }

\* Fields of a dateTime column: empty, not a date, one second older than
\* five years, exactly five years old, three hours old.
DateFields ==
    { EmptyStr, Word("not-a-date"),
      DateStr("iso", NOW - FIVE_YEARS_MS - 1), DateStr("iso", NOW - FIVE_YEARS_MS),
      DateStr("iso", T1) }

\* Fields of a value column: "1", "invalid", "Infinity"
ValueFields == {Numeral("decimal", 1), Word("invalid"), Numeral("Infinity", 0)}

\* What a row holds under a column of the given name.  A bare numeral never
\* stands in a dateTime column: what `new Date` makes of one depends on the
\* engine.
FieldsUnder(name) ==
    CASE name \in {"dateTime", "DateTime"} -> DateFields
      [] name \in {"value", "Value"} -> ValueFields
      [] OTHER -> {Word("x")}

\* Data lines under a header: full rows, rows cut after the first field,
\* and the empty line
RowsUnder(h) ==
    LET full == {r \in [DOMAIN h -> DateFields \cup ValueFields \cup {Word("x")}] :
                    \A i \in DOMAIN h : r[i] \in FieldsUnder(h[i])}
    IN  full \cup {<<r[1]>> : r \in full} \cup {<<EmptyStr>>}

QuoteLine(line, quoted) ==
    IF line = <<EmptyStr>> THEN BlankLine
    ELSE [i \in DOMAIN line |-> Raw(quoted, line[i])]

HeaderLine(h, quoted) == [i \in DOMAIN h |-> Raw(quoted, Word(h[i]))]

CsvText(h, quoted, rows) ==
    <<HeaderLine(h, quoted)>> \o [i \in DOMAIN rows |-> QuoteLine(rows[i], quoted)]

InitCsv ==
    /\ pc = "parse"
    /\ \/ csvContent = <<>>
       \/ \E h \in Headers, quoted \in BOOLEAN :
             \E rows \in SeqsUpTo(RowsUnder(h), MaxRows) :
                csvContent = CsvText(h, quoted, rows)
    /\ parsed = Returned(<<>>)
    /\ MergeIdle
    /\ StoreIdle
    /\ ChartIdle
    /\ SimplifyIdle
    /\ RangeIdle
    /\ FormatIdle
    /\ ToggleIdle
    /\ OverlapIdle

ParseHistoricCSV ==
    /\ pc = "parse"
    /\ parsed' = parseHistoricCSV(csvContent, NOW)
    /\ pc' = "parsed"
    /\ UNCHANGED <<csvContent, restOfCsv>>

NextCsv == ParseHistoricCSV

SpecCsv == InitCsv /\ [][NextCsv]_vars

-----------------------------------------------------------------------------
(* Claims about parseHistoricCSV *)

\* The lines of the text from its first to its last non-empty line
NonBlankAt == {i \in DOMAIN csvContent : csvContent[i] # BlankLine}

FirstLine == CHOOSE i \in NonBlankAt : \A j \in NonBlankAt : i <= j

LastLine == CHOOSE i \in NonBlankAt : \A j \in NonBlankAt : j <= i

LineCount == IF NonBlankAt = {} THEN 0 ELSE LastLine - FirstLine + 1

HeaderNames ==
    IF NonBlankAt = {} THEN {}
    ELSE {csvContent[FirstLine][i].text.form : i \in DOMAIN csvContent[FirstLine]}

ParsedOk == pc = "parsed" /\ ~parsed.threw

IsFinite(v) == ~v.nan /\ ~v.inf

\* The field a data line holds in the column the header names
FieldOf(line, name) ==
    LET col == CHOOSE i \in DOMAIN csvContent[FirstLine] :
                  csvContent[FirstLine][i].text.form = name
    IN  IF col \in DOMAIN line THEN line[col].text ELSE EmptyStr

\* not more than 5 x 365 days before the parse instant
WithinFiveYears(s) == IsValidDate(s) /\ s.inst >= NOW - 5 * 365 * 24 * 60 * 60

OlderThanFiveYears(s) == IsValidDate(s) /\ s.inst < NOW - 5 * 365 * 24 * 60 * 60

\* C5: for every text whose header has the dateTime and value columns,
\* parseHistoricCSV returns at most as many points as there are data rows,
\* and the dateTime of every returned point denotes an instant not more than
\* 5 x 365 days before the parse instant.
C5_AtMostRowsAllWithinFiveYears ==
    ParsedOk =>
        /\ Len(parsed.data) <= LineCount - 1
        /\ \A i \in DOMAIN parsed.data : WithinFiveYears(parsed.data[i].dateTime)

\* The data rows the claim C6 wants in the output: dateTime not empty, value
\* a finite number, not older than five years
RECURSIVE RowsToOutput(_)
RowsToOutput(i) ==
    IF i > LastLine THEN <<>>
    ELSE LET line == csvContent[i]
             dateTime == FieldOf(line, "dateTime")
             value == ParseFloat(FieldOf(line, "value"))
         IN  (IF ~IsEmptyStr(dateTime) /\ IsFinite(value) /\ ~OlderThanFiveYears(dateTime)
              THEN <<[dateTime |-> dateTime, value |-> value, _value |-> value]>>
              ELSE <<>>) \o RowsToOutput(i + 1)

\* C6: parseHistoricCSV skips, without throwing, every data row whose
\* dateTime field is empty or whose value field does not parse as a finite
\* number, and outputs every other row that is not older than 5 years, in
\* the row order of the file.
C6_SkipsInvalidRowsKeepsOrder ==
    ParsedOk =>
        /\ \A i \in DOMAIN parsed.data :
              ~IsEmptyStr(parsed.data[i].dateTime) /\ IsFinite(parsed.data[i].value)
        /\ SelectSeq(parsed.data, LAMBDA p : ~OlderThanFiveYears(p.dateTime))
              = RowsToOutput(FirstLine + 1)

\* C7: parseHistoricCSV throws exactly when the text has fewer than 2 lines
\* (empty file or header only) or its header lacks the exact, case-sensitive
\* name dateTime or value; for every other text it returns a sequence.
C7_ThrowsExactlyOnShortTextOrMissingColumn ==
    pc = "parsed" =>
        (parsed.threw <=>
            (LineCount < 2 \/ "dateTime" \notin HeaderNames \/ "value" \notin HeaderNames))

\* C7 witness: a text with data rows whose header spells a required column
\* in another case was refused.
C7_Witness ==
    /\ pc = "parsed" /\ parsed.threw
    /\ LineCount >= 2
    /\ "DateTime" \in HeaderNames /\ "value" \in HeaderNames

-----------------------------------------------------------------------------
(* filterDataByTimeRange *)

KnownRanges == {"5d", "1m", "6m", "1y", "5y"}

RangeTokens == KnownRanges \cup {"unknown"}

\* the switch on range: how far back cutoffDate lies
Lookback(r) ==
    CASE r = "5d" -> FIVE_DAYS * MS_PER_DAY
      [] r = "1m" -> THIRTY_DAYS * MS_PER_DAY
      [] r = "6m" -> SIX_MONTHS * THIRTY_DAYS * MS_PER_DAY
      [] r = "1y" -> DAYS_PER_YEAR * MS_PER_DAY
      [] r = "5y" -> FIVE_YEARS_MS

\* new Date(item.dateTime) >= cutoffDate; false for an Invalid Date
AtOrAfter(s, cutoff) == IsValidDate(s) /\ ParseDate(s) >= cutoff

\* filterDataByTimeRange comparing with > instead of >=
filterDataByTimeRangeStrict(d, r, now) ==
    IF ~d.isArray \/ Len(d.items) = 0 THEN <<>>
    ELSE IF r \notin KnownRanges THEN d.items
    ELSE SelectSeq(d.items, LAMBDA item :
            IsValidDate(item.dateTime) /\ ParseDate(item.dateTime) > now - Lookback(r))

\* filterDataByTimeRange with the 6m cutoff at SIX_MONTHS days
filterDataByTimeRangeSixDays(d, r, now) ==
    IF ~d.isArray \/ Len(d.items) = 0 THEN <<>>
    ELSE IF r \notin KnownRanges THEN d.items
    ELSE SelectSeq(d.items, LAMBDA item :
            AtOrAfter(item.dateTime,
                      now - (IF r = "6m" THEN SIX_MONTHS * MS_PER_DAY ELSE Lookback(r))))

filterDataByTimeRange(d, r, now) ==
    IF ~d.isArray \/ Len(d.items) = 0 THEN <<>>
    ELSE IF r \notin KnownRanges THEN d.items
    ELSE SelectSeq(d.items, LAMBDA item : AtOrAfter(item.dateTime, now - Lookback(r)))

-----------------------------------------------------------------------------
(* Inputs of the filter check *)

MaxFilterLen == 2

\* For every range one point a second older than its cutoff and one exactly
\* at it, a point of this instant, and a point whose dateTime is no date
FilterDateStrings ==
    {DateStr("iso", NOW - Lookback(r) - 1) : r \in KnownRanges}
    \cup {DateStr("iso", NOW - Lookback(r)) : r \in KnownRanges}
    \cup {DateStr("iso", NOW), Word("not-a-date")}

FilterPoints == [dateTime : FilterDateStrings, value : {1}]

InitFilter ==
    /\ pc = "filter"
    /\ series \in {Null} \cup {Arr(s) : s \in SeqsUpTo(FilterPoints, MaxFilterLen)}
    /\ range \in RangeTokens
    /\ filtered = <<>>
    /\ widerRange = "5d"
    /\ filteredWider = <<>>
    /\ tzOffset = 0
    /\ downsampled = <<>>
    /\ MergeIdle
    /\ StoreIdle
    /\ ChartIdle
    /\ SimplifyIdle
    /\ CsvIdle
    /\ FormatIdle
    /\ ToggleIdle
    /\ OverlapIdle

FilterDataByTimeRange ==
    /\ pc = "filter"
    /\ filtered' = filterDataByTimeRange(series, range, NOW)
    /\ pc' = "filtered"
    /\ UNCHANGED <<series, range, widerRange, filteredWider, tzOffset, downsampled, restOfRange>>

\* the same array filtered again, at the same instant, with another token
FilterWithOtherRange(r) ==
    /\ pc = "filtered"
    /\ widerRange' = r
    /\ filteredWider' = filterDataByTimeRange(series, r, NOW)
    /\ pc' = "filtered twice"
    /\ UNCHANGED <<series, range, filtered, tzOffset, downsampled, restOfRange>>

NextFilter ==
    \/ FilterDataByTimeRange
    \/ \E r \in RangeTokens : FilterWithOtherRange(r)

SpecFilter == InitFilter /\ [][NextFilter]_vars

-----------------------------------------------------------------------------
(* Claims about filterDataByTimeRange *)

\* the lookback of each token in days, as the claim C8 lists them
DaysOf(r) ==
    CASE r = "5d" -> 5 [] r = "1m" -> 30 [] r = "6m" -> 180 [] r = "1y" -> 365 [] r = "5y" -> 1825

AtOrAfterCutoff(p, r) ==
    IsValidDate(p.dateTime) /\ p.dateTime.inst >= NOW - DaysOf(r) * 24 * 60 * 60

\* C8: for a token r of 5d, 1m, 6m, 1y, 5y, filterDataByTimeRange(points, r)
\* returns exactly the points whose dateTime is at or after now minus 5, 30,
\* 180, 365 and 1825 days (a point exactly at the cutoff is kept), in their
\* input order.
C8_KeepsExactlyPointsFromCutoff ==
    (pc = "filtered" /\ range \in KnownRanges) =>
        filtered = SelectSeq(series.items, LAMBDA p : AtOrAfterCutoff(p, range))

\* C8 witness: with 6m, a point exactly 180 days old was kept and a point
\* one second older was dropped.
C8_Witness ==
    /\ pc = "filtered" /\ range = "6m"
    /\ Len(series.items) = 2 /\ Len(filtered) = 1
    /\ filtered[1].dateTime.inst = NOW - 180 * 24 * 60 * 60
    /\ \E i \in DOMAIN series.items :
          /\ IsValidDate(series.items[i].dateTime)
          /\ series.items[i].dateTime.inst = NOW - 180 * 24 * 60 * 60 - 1

\* 5d < 1m < 6m < 1y < 5y
RangeRank(r) ==
    CASE r = "5d" -> 1 [] r = "1m" -> 2 [] r = "6m" -> 3 [] r = "1y" -> 4 [] r = "5y" -> 5

\* C9: filterDataByTimeRange is monotonic in the range: for the same input
\* and the same instant, the result for a larger range holds every point of
\* the result for a smaller range.
C9_LargerRangeHoldsSmallerResult ==
    (/\ pc = "filtered twice"
     /\ range \in KnownRanges /\ widerRange \in KnownRanges
     /\ RangeRank(range) < RangeRank(widerRange)) =>
        \A p \in RangeOf(filtered) : Count(filtered, p) <= Count(filteredWider, p)

\* C9 witness: the larger range returned a point the smaller range dropped,
\* and the smaller range returned one too.
C9_Witness ==
    /\ pc = "filtered twice"
    /\ range \in KnownRanges /\ widerRange \in KnownRanges
    /\ RangeRank(range) < RangeRank(widerRange)
    /\ Len(filtered) > 0
    /\ Len(filtered) < Len(filteredWider)

-----------------------------------------------------------------------------
(* downsampleForStyleB *)
(*                                                                           *)
(* Local time is UTC plus tzOffset, the same offset for every point of the   *)
(* array (no change of daylight saving time inside the data).  A key is a    *)
(* number or NaN: every field of an Invalid Date is NaN.                     *)

FOUR_HOURS_MS == 4 * MINUTES_PER_HOUR * SECONDS_PER_MINUTE

NaN == [nan |-> TRUE, k |-> 0]

Num(k) == [nan |-> FALSE, k |-> k]

\* lastHour = null before the first item
NullKey == [nan |-> FALSE, k |-> -1]

\* a !== b on numbers: NaN differs from everything, itself included
StrictNotEqual(a, b) == a.nan \/ b.nan \/ a.k # b.k

\* Map keys compare by SameValueZero: NaN is the same key as NaN
SameValueZero(a, b) == (a.nan /\ b.nan) \/ (~a.nan /\ ~b.nan /\ a.k = b.k)

\* HourKey taken on the UTC clock instead of the local one
HourKeyUTC(s, off) ==
    IF IsValidDate(s)
    THEN Num((ParseDate(s) \div (MINUTES_PER_HOUR * SECONDS_PER_MINUTE))
                * (MINUTES_PER_HOUR * SECONDS_PER_MINUTE))
    ELSE NaN

\* new Date(y, m, d, h).getTime(): the start of the local calendar hour
HourKey(s, off) ==
    IF IsValidDate(s)
    THEN Num(((ParseDate(s) + off) \div (MINUTES_PER_HOUR * SECONDS_PER_MINUTE))
                * (MINUTES_PER_HOUR * SECONDS_PER_MINUTE) - off)
    ELSE NaN

\* Math.floor(timestamp / FOUR_HOURS_MS) * FOUR_HOURS_MS
IntervalKey(s) ==
    IF IsValidDate(s) THEN Num((ParseDate(s) \div FOUR_HOURS_MS) * FOUR_HOURS_MS) ELSE NaN

\* date.getDay(): 1 January 1970 was a Thursday
GetDay(localDay) == (localDay + 4) % 7

\* weekStart.setDate(date.getDate() - date.getDay()); setHours(0, 0, 0, 0):
\* the local Sunday 00:00 on or before the date
WeekKey(s, off) ==
    IF IsValidDate(s)
    THEN LET localDay == (ParseDate(s) + off) \div MS_PER_DAY
         IN  Num((localDay - GetDay(localDay)) * MS_PER_DAY - off)
    ELSE NaN

\* the forEach of the 6m and 1y branches: an item is pushed when its key is
\* not the key remembered from the last push
RECURSIVE KeepOnKeyChange(_, _, _, _)
KeepOnKeyChange(items, keys, i, last) ==
    IF i > Len(items) THEN <<>>
    ELSE IF StrictNotEqual(last, keys[i])
         THEN <<items[i]>> \o KeepOnKeyChange(items, keys, i + 1, keys[i])
         ELSE KeepOnKeyChange(items, keys, i + 1, last)

\* WeeklyGroups that keeps the first item of every week
RECURSIVE WeeklyGroupsFirst(_, _, _, _)
WeeklyGroupsFirst(items, keys, i, groups) ==
    IF i > Len(items) THEN groups
    ELSE IF \E g \in DOMAIN groups : SameValueZero(groups[g].key, keys[i])
         THEN WeeklyGroupsFirst(items, keys, i + 1, groups)
         ELSE WeeklyGroupsFirst(items, keys, i + 1,
                                Append(groups, [key |-> keys[i], item |-> items[i]]))

\* weeklyGroups after the forEach of the 5y branch, as its entries in
\* insertion order: a later item takes the place of its week's entry when
\* its value is greater
RECURSIVE WeeklyGroups(_, _, _, _)
WeeklyGroups(items, keys, i, groups) ==
    IF i > Len(items) THEN groups
    ELSE LET at == {g \in DOMAIN groups : SameValueZero(groups[g].key, keys[i])}
         IN  IF at = {}
             THEN WeeklyGroups(items, keys, i + 1,
                               Append(groups, [key |-> keys[i], item |-> items[i]]))
             ELSE LET g == CHOOSE x \in at : TRUE
                  IN  IF items[i].value > groups[g].item.value
                      THEN WeeklyGroups(items, keys, i + 1,
                                        [groups EXCEPT ![g].item = items[i]])
                      ELSE WeeklyGroups(items, keys, i + 1, groups)

Reorderings(s) ==
    {[i \in DOMAIN s |-> s[f[i]]] :
        f \in {g \in [DOMAIN s -> DOMAIN s] : \A i, j \in DOMAIN s : g[i] = g[j] => i = j}}

\* array.sort by parsed dateTime.  With an Invalid Date among the items the
\* comparator returns NaN for some pairs, is no consistent comparator, and
\* the order of the result is up to the engine.
SortResults(s) ==
    IF \A i \in DOMAIN s : IsValidDate(s[i].dateTime)
    THEN {SortByDateTime(s)}
    ELSE Reorderings(s)

\* downsampleForStyleB with `downsampled` starting as a copy of data
downsampleForStyleBFromCopy(d, r, off) ==
    IF ~d.isArray \/ Len(d.items) = 0 THEN {<<>>}
    ELSE IF r \in {"5d", "1m"} THEN {d.items}
    ELSE IF r = "6m"
    THEN {d.items \o KeepOnKeyChange(d.items,
             [i \in DOMAIN d.items |-> HourKey(d.items[i].dateTime, off)], 1, NullKey)}
    ELSE IF r = "1y"
    THEN {d.items \o KeepOnKeyChange(d.items,
             [i \in DOMAIN d.items |-> IntervalKey(d.items[i].dateTime)], 1, NullKey)}
    ELSE IF r = "5y"
    THEN LET groups == WeeklyGroups(d.items,
                 [i \in DOMAIN d.items |-> WeekKey(d.items[i].dateTime, off)], 1, <<>>)
         IN  SortResults(d.items \o [g \in DOMAIN groups |-> groups[g].item])
    ELSE {d.items}

\* The arrays downsampleForStyleB(data, range) can return
downsampleForStyleB(d, r, off) ==
    IF ~d.isArray \/ Len(d.items) = 0 THEN {<<>>}
    ELSE IF r \in {"5d", "1m"} THEN {d.items}
    ELSE IF r = "6m"
    THEN {KeepOnKeyChange(d.items,
             [i \in DOMAIN d.items |-> HourKey(d.items[i].dateTime, off)], 1, NullKey)}
    ELSE IF r = "1y"
    THEN {KeepOnKeyChange(d.items,
             [i \in DOMAIN d.items |-> IntervalKey(d.items[i].dateTime)], 1, NullKey)}
    ELSE IF r = "5y"
    THEN LET groups == WeeklyGroups(d.items,
                 [i \in DOMAIN d.items |-> WeekKey(d.items[i].dateTime, off)], 1, <<>>)
         IN  SortResults([g \in DOMAIN groups |-> groups[g].item])
    ELSE {d.items}

-----------------------------------------------------------------------------
(* Inputs of the downsampling check *)

MaxSeriesLen == 3

\* Sunday 26 October 2025, 00:00 UTC
WeekStart == NOW - 10 * MS_PER_DAY

\* An hour before that Sunday, the Sunday's start, a quarter of an hour and
\* four hours into it, the Sunday after, and a dateTime that is no date
SeriesDateStrings ==
    { DateStr("iso", WeekStart - MINUTES_PER_HOUR * SECONDS_PER_MINUTE),
      DateStr("iso", WeekStart),
      DateStr("iso", WeekStart + 15 * SECONDS_PER_MINUTE),
      DateStr("iso", WeekStart + FOUR_HOURS_MS),
      DateStr("iso", WeekStart + 7 * MS_PER_DAY),
      Word("not-a-date") }

SeriesPoints == [dateTime : SeriesDateStrings, value : {1, 2}]

\* UTC and UTC+05:45: there the Sunday's start and the quarter past it fall
\* into two local hours, and the hour before the Sunday into the Sunday
TimeZoneOffsets == {0, 20700}

InitDownsample ==
    /\ pc = "downsample"
    /\ series \in {Null} \cup {Arr(s) : s \in SeqsUpTo(SeriesPoints, MaxSeriesLen)}
    /\ range \in RangeTokens
    /\ tzOffset \in TimeZoneOffsets
    /\ filtered = <<>>
    /\ widerRange = "5d"
    /\ filteredWider = <<>>
    /\ downsampled = <<>>
    /\ MergeIdle
    /\ StoreIdle
    /\ ChartIdle
    /\ SimplifyIdle
    /\ CsvIdle
    /\ FormatIdle
    /\ ToggleIdle
    /\ OverlapIdle

DownsampleForStyleB ==
    /\ pc = "downsample"
    /\ downsampled' \in downsampleForStyleB(series, range, tzOffset)
    /\ pc' = "downsampled"
    /\ UNCHANGED <<series, range, filtered, widerRange, filteredWider, tzOffset, restOfRange>>

NextDownsample == DownsampleForStyleB

SpecDownsample == InitDownsample /\ [][NextDownsample]_vars

-----------------------------------------------------------------------------
(* Claims about downsampleForStyleB *)

\* C10: for every input sequence and every range token, the five known ones
\* and any other, downsampleForStyleB never returns more points than it
\* received.
C10_NeverMorePointsThanReceived ==
    pc = "downsampled" => Len(downsampled) <= Len(series.items)

\* C10 witness: with 6m, 1y or 5y, some points of the input were dropped
\* and some were kept.
C10_Witness ==
    /\ pc = "downsampled"
    /\ range \in {"6m", "1y", "5y"}
    /\ \A i \in DOMAIN series.items : IsValidDate(series.items[i].dateTime)
    /\ Len(downsampled) > 0
    /\ Len(downsampled) < Len(series.items)

AllDatesValid ==
    series.isArray /\ \A i \in DOMAIN series.items : IsValidDate(series.items[i].dateTime)

\* the local calendar hour of a dateTime, counted from the epoch
LocalHourOf(s) == (ParseDate(s) + tzOffset) \div (MINUTES_PER_HOUR * SECONDS_PER_MINUTE)

\* floor(epoch / 4h)
FourHourOf(s) == ParseDate(s) \div FOUR_HOURS_MS

BucketOf(s) == IF range = "6m" THEN LocalHourOf(s) ELSE FourHourOf(s)

\* the indices of the points that are the first of their bucket
FirstOfBucket(items) ==
    {i \in DOMAIN items :
        \A j \in DOMAIN items : j < i => BucketOf(items[j].dateTime) # BucketOf(items[i].dateTime)}

\* the items at the indices K, in the order of the array
PickIndices(items, K) ==
    [n \in 1..Cardinality(K) |->
        items[CHOOSE i \in K : Cardinality({j \in K : j <= i}) = n]]

\* the points of one bucket stand next to each other, as in a sorted array
BucketsAdjacent(items) ==
    \A i, j, k \in DOMAIN items :
        (i < j /\ j < k /\ BucketOf(items[i].dateTime) = BucketOf(items[k].dateTime))
            => BucketOf(items[j].dateTime) = BucketOf(items[i].dateTime)

\* C11 as stated: with 6m the result is the first point of each local
\* calendar hour, with 1y the first point of each 4-hour interval of the
\* epoch, in input order: exactly one point for every bucket of the input.
C11_OnePointPerBucket ==
    (pc = "downsampled" /\ range \in {"6m", "1y"} /\ AllDatesValid) =>
        downsampled = PickIndices(series.items, FirstOfBucket(series.items))

\* C11 amended: when the points of every bucket stand next to each other in
\* the input (as in an input sorted by dateTime), the result with 6m is the
\* first point of each local calendar hour and with 1y the first point of
\* each 4-hour interval, in input order, one point for every bucket.
C11_OnePointPerAdjacentBucket ==
    (pc = "downsampled" /\ range \in {"6m", "1y"} /\ AllDatesValid
        /\ BucketsAdjacent(series.items)) =>
        /\ downsampled = PickIndices(series.items, FirstOfBucket(series.items))
        /\ \A i \in DOMAIN series.items :
              Cardinality({n \in DOMAIN downsampled :
                  BucketOf(downsampled[n].dateTime) = BucketOf(series.items[i].dateTime)}) = 1

\* C11 witness: in a time zone off the full hour, two points of one UTC hour
\* and two local hours were both kept with 6m, and a later point of one of
\* these hours was dropped.
C11_Witness ==
    /\ pc = "downsampled" /\ range = "6m" /\ AllDatesValid
    /\ BucketsAdjacent(series.items)
    /\ Len(downsampled) = 2 /\ Len(series.items) = 3
    /\ FourHourOf(downsampled[1].dateTime) = FourHourOf(downsampled[2].dateTime)
    /\ ParseDate(downsampled[1].dateTime) \div (MINUTES_PER_HOUR * SECONDS_PER_MINUTE)
         = ParseDate(downsampled[2].dateTime) \div (MINUTES_PER_HOUR * SECONDS_PER_MINUTE)

\* the local calendar week (Sunday to Saturday) of a dateTime, counted from
\* the epoch: 1 January 1970 was a Thursday, 4 January the first Sunday
LocalWeekOf(s) == ((ParseDate(s) + tzOffset) \div MS_PER_DAY + 4) \div 7

WeekPoints(items, w) == {i \in DOMAIN items : LocalWeekOf(items[i].dateTime) = w}

-----------------------------------------------------------------------------
(* Inputs of the merge check *)

MaxMergeLen == 2

MergeDateStrings ==
    {DateStr("iso", T1), DateStr("iso.ms", T1), DateStr("iso", T2), DateStr("iso", T3)}

\* The value tells the origin of a point: 1 uploaded, 2 live.
HistoricPoints == [dateTime : MergeDateStrings, value : {1}]
RealtimePoints == [dateTime : MergeDateStrings, value : {2}]

MergeInputs(P) == {Null} \cup {Arr(s) : s \in SeqsUpTo(P, MaxMergeLen)}

InitMerge ==
    /\ pc = "merge"
    /\ historicData \in MergeInputs(HistoricPoints)
    /\ realtimeData \in MergeInputs(RealtimePoints)
    /\ merged = <<>>
    /\ remerged = <<>>
    /\ StoreIdle
    /\ ChartIdle
    /\ SimplifyIdle
    /\ CsvIdle
    /\ RangeIdle
    /\ FormatIdle
    /\ ToggleIdle
    /\ OverlapIdle

MergeData ==
    /\ pc = "merge"
    /\ merged' = mergeData(historicData, realtimeData)
    /\ pc' = "merged"
    /\ UNCHANGED <<historicData, realtimeData, remerged, restOfMerge>>

\* the result is merged once more with the same live series
ReMerge ==
    /\ pc = "merged"
    /\ remerged' = mergeData(Arr(merged), realtimeData)
    /\ pc' = "remerged"
    /\ UNCHANGED <<historicData, realtimeData, merged, restOfMerge>>

NextMerge == MergeData \/ ReMerge

SpecMerge == InitMerge /\ [][NextMerge]_vars

-----------------------------------------------------------------------------
(* Claims about mergeData *)

SortedByDate(s) ==
    \A i, j \in DOMAIN s : i < j => ParseDate(s[i].dateTime) <= ParseDate(s[j].dateTime)

NoRepeatedInstant(s) ==
    \A i, j \in DOMAIN s : i # j => ParseDate(s[i].dateTime) # ParseDate(s[j].dateTime)

BothNonEmpty ==
    /\ historicData.isArray /\ Len(historicData.items) > 0
    /\ realtimeData.isArray /\ Len(realtimeData.items) > 0

-----------------------------------------------------------------------------
(* simplify (client/javascripts/utils.js)                                    *)
(*                                                                           *)
(* A point is drawn in the plane (value, time of dateTime).  The time axis   *)
(* is in seconds here as everywhere in this module.  A squared distance is   *)
(* a fraction n / d with d > 0, or NaN; the source computes it in doubles,   *)
(* where the quotient t is rounded.  Indices count from 1 (the source's 0).  *)

Frac(n, d) == [nan |-> FALSE, n |-> n, d |-> d]

NaNFrac == [nan |-> TRUE, n |-> 0, d |-> 1]

\* a > b on numbers: false when either is NaN.  Denominators are positive;
\* whole parts are compared first and the remainders only when they are
\* equal, so that no product leaves the 32 bits of the checker's integers.
Greater(a, b) ==
    /\ ~a.nan /\ ~b.nan
    /\ \/ a.n \div a.d > b.n \div b.d
       \/ /\ a.n \div a.d = b.n \div b.d
          /\ (a.n % a.d) * b.d > (b.n % b.d) * a.d

GetTime(p) == ParseDate(p.dateTime)

SqDistToPoint(p, q) ==
    (p.value - q.value) * (p.value - q.value) + (GetTime(p) - GetTime(q)) * (GetTime(p) - GetTime(q))

\* getSqSegDist(p, p1, p2).  With p2 of no date dy and t are NaN, neither
\* t > 1 nor t > 0 holds and the distance is taken from p1; with p or p1 of
\* no date the returned sum is NaN.
getSqSegDist(p, p1, p2) ==
    IF ~IsValidDate(p.dateTime) \/ ~IsValidDate(p1.dateTime) THEN NaNFrac
    ELSE IF ~IsValidDate(p2.dateTime) THEN Frac(SqDistToPoint(p, p1), 1)
    ELSE LET dx == p2.value - p1.value
             dy == GetTime(p2) - GetTime(p1)
             den == dx * dx + dy * dy
             num == (p.value - p1.value) * dx + (GetTime(p) - GetTime(p1)) * dy
             cross == (p.value - p1.value) * dy - (GetTime(p) - GetTime(p1)) * dx
         IN  IF dx = 0 /\ dy = 0 THEN Frac(SqDistToPoint(p, p1), 1)
             ELSE IF num > den THEN Frac(SqDistToPoint(p, p2), 1)
             ELSE IF num > 0 THEN Frac(cross * cross, den)
             ELSE Frac(SqDistToPoint(p, p1), 1)

\* the for loop over first + 1 .. last - 1: index and maxSqDist at its end
RECURSIVE ScanMax(_, _, _, _, _, _)
ScanMax(pts, first, last, i, index, maxSqDist) ==
    IF i >= last THEN [index |-> index, maxSqDist |-> maxSqDist]
    ELSE LET sqDist == getSqSegDist(pts[i], pts[first], pts[last])
         IN  IF Greater(sqDist, maxSqDist)
             THEN ScanMax(pts, first, last, i + 1, i, sqDist)
             ELSE ScanMax(pts, first, last, i + 1, index, maxSqDist)

\* no markers set before the loop
InitialMarkersNone(len) == [i \in 1..len |-> 0]

\* new MarkerArray(len); markers[0] = markers[len - 1] = 1
InitialMarkers(len) == [i \in 1..len |-> IF i = 1 \/ i = len THEN 1 ELSE 0]

\* only the range in front of index is pushed
PushRangesFrontOnly(stack, first, index, last) == stack \o <<first, index>>

\* only the range behind index is pushed
PushRangesBackOnly(stack, first, index, last) == stack \o <<index, last>>

\* stack.push(first, index, index, last)
PushRanges(stack, first, index, last) == stack \o <<first, index, index, last>>

\* the while loop, one record for each turn: the range popped, index after
\* the scan, the stack after the two pops and the stack at the end of the turn
RECURSIVE StackTurns(_, _, _)
StackTurns(pts, sqTolerance, stack) ==
    IF stack = <<>> THEN <<>>
    ELSE LET last == stack[Len(stack)]
             first == stack[Len(stack) - 1]
             popped == SubSeq(stack, 1, Len(stack) - 2)
             scan == ScanMax(pts, first, last, first + 1, 0, Frac(0, 1))
             after == IF Greater(scan.maxSqDist, Frac(sqTolerance, 1))
                      THEN PushRanges(popped, first, scan.index, last)
                      ELSE popped
         IN  <<[first |-> first, last |-> last, index |-> scan.index,
                popped |-> popped, after |-> after]>>
                \o StackTurns(pts, sqTolerance, after)

\* the while loop: the markers when the stack has run empty
RECURSIVE WhileStack(_, _, _, _)
WhileStack(pts, sqTolerance, stack, markers) ==
    IF stack = <<>> THEN markers
    ELSE LET last == stack[Len(stack)]
             first == stack[Len(stack) - 1]
             popped == SubSeq(stack, 1, Len(stack) - 2)
             scan == ScanMax(pts, first, last, first + 1, 0, Frac(0, 1))
         IN  IF Greater(scan.maxSqDist, Frac(sqTolerance, 1))
             THEN WhileStack(pts, sqTolerance,
                             PushRanges(popped, first, scan.index, last),
                             [markers EXCEPT ![scan.index] = 1])
             ELSE WhileStack(pts, sqTolerance, popped, markers)

\* { ...points[i], isSignificant: true }
Significant(p) ==
    [f \in DOMAIN p \cup {"isSignificant"} |-> IF f = "isSignificant" THEN TRUE ELSE p[f]]

\* newPoints: the marked points in the order of the array
RECURSIVE NewPoints(_, _, _)
NewPoints(pts, markers, i) ==
    IF i > Len(pts) THEN <<>>
    ELSE IF markers[i] = 1
         THEN <<Significant(pts[i])>> \o NewPoints(pts, markers, i + 1)
         ELSE NewPoints(pts, markers, i + 1)

simplifyDouglasPeucker(pts, sqTolerance) ==
    NewPoints(pts,
              WhileStack(pts, sqTolerance, <<1, Len(pts)>>, InitialMarkers(Len(pts))),
              1)

simplify(pts, tol) ==
    IF Len(pts) <= 2 THEN pts
    ELSE simplifyDouglasPeucker(pts, tol * tol)

-----------------------------------------------------------------------------
(* Inputs of the simplify check *)

MaxPoints == 4

\* three instants a second apart and three levels: a grid of nine places,
\* and a point whose dateTime is no date
SimplifyPoints ==
    [dateTime : {DateStr("iso", T1 + k) : k \in 0..2}, value : 0..2]
        \cup {[dateTime |-> Word("not-a-date"), value |-> 0]}

Tolerances == {0, 1, -2}

InitSimplify ==
    /\ pc = "simplify"
    /\ points \in SeqsUpTo(SimplifyPoints, MaxPoints)
    /\ tolerance \in Tolerances
    /\ simplified = <<>>
    /\ MergeIdle
    /\ StoreIdle
    /\ ChartIdle
    /\ CsvIdle
    /\ RangeIdle
    /\ FormatIdle
    /\ ToggleIdle
    /\ OverlapIdle

Simplify ==
    /\ pc = "simplify"
    /\ simplified' = simplify(points, tolerance)
    /\ pc' = "simplified"
    /\ UNCHANGED <<points, tolerance, restOfSimplify>>

NextSimplify == Simplify

SpecSimplify == InitSimplify /\ [][NextSimplify]_vars

-----------------------------------------------------------------------------
(* Claims about simplify *)

SamePoint(out, in) == out.dateTime = in.dateTime /\ out.value = in.value

\* C15: for every input of more than 2 points and every tolerance, the first
\* element simplify returns is the first input point, the last element is
\* the last input point, and it returns no more points than it received.
C15_EndpointsKeptNoMorePoints ==
    (pc = "simplified" /\ Len(points) > 2) =>
        /\ Len(simplified) >= 1
        /\ Len(simplified) <= Len(points)
        /\ SamePoint(simplified[1], points[1])
        /\ SamePoint(simplified[Len(simplified)], points[Len(points)])

\* C15 witness: of four points with different ends only the two ends came
\* back.
C15_Witness ==
    /\ pc = "simplified" /\ Len(points) = 4
    /\ points[1] # points[4]
    /\ Len(simplified) = 2
    /\ SamePoint(simplified[1], points[1])
    /\ SamePoint(simplified[2], points[4])

\* the interior point of the range farthest from the chord, the first of
\* them when several are equally far; 0 when no interior point has a
\* distance above zero
Farthest(pts, first, last) ==
    LET D(i) == getSqSegDist(pts[i], pts[first], pts[last])
        far == {i \in (first + 1)..(last - 1) : Greater(D(i), Frac(0, 1))}
    IN  IF far = {} THEN 0
        ELSE CHOOSE i \in far :
                \A j \in far : /\ j < i => Greater(D(i), D(j))
                               /\ j > i => ~Greater(D(j), D(i))

\* the interior points Douglas-Peucker keeps between first and last
RECURSIVE KeptBetween(_, _, _, _)
KeptBetween(pts, tol, first, last) ==
    LET i == Farthest(pts, first, last)
    IN  IF i # 0 /\ Greater(getSqSegDist(pts[i], pts[first], pts[last]), Frac(tol * tol, 1))
        THEN {i} \cup KeptBetween(pts, tol, first, i) \cup KeptBetween(pts, tol, i, last)
        ELSE {}

\* C16: for more than 2 points simplify returns exactly the kept points: the
\* two ends and, for each examined range (first, last), the interior point
\* with the greatest squared distance from the chord first-last when that
\* distance exceeds the squared tolerance; in the original order, each with
\* isSignificant = true, every other point dropped.
C16_ExactlyTheKeptPoints ==
    (pc = "simplified" /\ Len(points) > 2) =>
        LET kept == {1, Len(points)} \cup KeptBetween(points, tolerance, 1, Len(points))
        IN  /\ Len(simplified) = Cardinality(kept)
            /\ \A n \in DOMAIN simplified :
                  LET i == CHOOSE k \in kept : Cardinality({j \in kept : j <= k}) = n
                  IN  /\ SamePoint(simplified[n], points[i])
                      /\ simplified[n].isSignificant = TRUE

\* C16 witness: of four points the third was kept for its distance from the
\* chord of the ends, the second was dropped, being near the chord from the
\* first point to the third.
C16_Witness ==
    /\ pc = "simplified" /\ Len(points) = 4 /\ tolerance # 0
    /\ \A i \in 1..4 : IsValidDate(points[i].dateTime)
    /\ Len(simplified) = 3
    /\ SamePoint(simplified[2], points[3])
    /\ points[2] # points[1] /\ points[2] # points[3]

\* C28: simplify comes to an end for every input sequence and tolerance:
\* every turn of the while loop pops one range (first, last) and either
\* pushes nothing or pushes the two ranges (first, index) and (index, last)
\* with first < index < last, both shorter than the popped one; the stack
\* is empty after at most 2 * length - 3 turns, and the result holds the two
\* ends and one point for each turn that pushed.
C28_WorkStackShrinksToEmpty ==
    (pc = "simplified" /\ Len(points) > 2) =>
        LET turns == StackTurns(points, tolerance * tolerance, <<1, Len(points)>>)
        IN  /\ Len(turns) >= 1 /\ Len(turns) <= 2 * Len(points) - 3
            /\ turns[Len(turns)].after = <<>>
            /\ Len(simplified) = 2 + Cardinality({k \in DOMAIN turns :
                                                    turns[k].after # turns[k].popped})
            /\ \A k \in DOMAIN turns :
                  \/ turns[k].after = turns[k].popped
                  \/ /\ turns[k].first < turns[k].index
                     /\ turns[k].index < turns[k].last
                     /\ turns[k].after = turns[k].popped \o
                            <<turns[k].first, turns[k].index, turns[k].index, turns[k].last>>

\* C28 witness: four points were simplified in five turns or more, so a
\* pushed range was split again.
C28_Witness ==
    /\ pc = "simplified" /\ Len(points) = 4
    /\ Len(StackTurns(points, tolerance * tolerance, <<1, Len(points)>>)) >= 5

-----------------------------------------------------------------------------
(* Chart renderer: hit-testing                                               *)
(*                                                                           *)
(* Two renderer files are modelled: part_006, whose findDataPointByX scans   *)
(* all points, and part_003, whose findDataPointByX bisects (as in           *)
(* line-chart.js and line-chart-refactored.js).  A time scale is its domain  *)
(* [d0, d1] and the width of its range [0, width]; scaleTime does not clamp. *)

Variants == {"part_006", "part_003"}

TimeOf(p) == ParseDate(p.dateTime)

SomePoint(p) == [isNull |-> FALSE, point |-> p]

Abs(n) == IF n < 0 THEN -n ELSE n

MinOf(S) == CHOOSE m \in S : \A n \in S : m <= n

MaxOf(S) == CHOOSE m \in S : \A n \in S : m >= n

\* createXScale: the extent of the points, the end padded by
\* TIME_RANGE_PADDING (a twentieth) of the span; new Date drops the fraction
createXScale(pts, w) ==
    LET times == {TimeOf(pts[i]) : i \in DOMAIN pts}
        lo == MinOf(times)
        hi == MaxOf(times)
    IN  [defined |-> TRUE, d0 |-> lo, d1 |-> hi + (hi - lo) \div 20, width |-> w]

\* xScale.invert(x).getTime(): linear, not clamped, the fraction dropped by
\* the Date; a scale whose range is [0, 0] maps every x to the start
Invert(scale, x) ==
    IF scale.width = 0 THEN scale.d0
    ELSE scale.d0 + (x * (scale.d1 - scale.d0)) \div scale.width

\* the for loop of part_006: closestPoint after looking at lines[i]
RECURSIVE ClosestFrom(_, _, _, _, _)
ClosestFrom(ls, mouseTime, i, closestPoint, minDistance) ==
    IF i > Len(ls) THEN closestPoint
    ELSE LET distance == Abs(mouseTime - TimeOf(ls[i]))
         IN  IF distance < minDistance
             THEN ClosestFrom(ls, mouseTime, i + 1, ls[i], distance)
             ELSE ClosestFrom(ls, mouseTime, i + 1, closestPoint, minDistance)

\* findDataPointByX taking the later of two equally near points
findDataPointByXLater(x, ls, scale) ==
    IF Len(ls) = 0 \/ ~scale.defined THEN NoPoint
    ELSE LET mouseTime == Invert(scale, x)
             near == {i \in DOMAIN ls :
                        \A j \in DOMAIN ls :
                            Abs(mouseTime - TimeOf(ls[i])) <= Abs(mouseTime - TimeOf(ls[j]))}
         IN  SomePoint(ls[MaxOf(near)])

\* findDataPointByX of part_006
findDataPointByX(x, ls, scale) ==
    IF Len(ls) = 0 \/ ~scale.defined THEN NoPoint
    ELSE LET mouseTime == Invert(scale, x)
         IN  SomePoint(ClosestFrom(ls, mouseTime, 2, ls[1], Abs(mouseTime - TimeOf(ls[1]))))

\* bisector(d => new Date(d.dateTime)).left(lines, mouseDate, lo): binary
\* search; lo and hi count from 0 as in the source
RECURSIVE BisectLeft(_, _, _, _)
BisectLeft(ls, mouseTime, lo, hi) ==
    IF lo < hi
    THEN LET mid == (lo + hi) \div 2
         IN  IF TimeOf(ls[mid + 1]) < mouseTime
             THEN BisectLeft(ls, mouseTime, mid + 1, hi)
             ELSE BisectLeft(ls, mouseTime, lo, mid)
    ELSE lo

\* findDataPointByX of part_003 taking d1 when d0 and d1 are equally near
findDataPointByXBisectLater(x, ls, scale) ==
    IF Len(ls) = 0 \/ ~scale.defined THEN NoPoint
    ELSE LET mouseTime == Invert(scale, x)
             i == BisectLeft(ls, mouseTime, 1, Len(ls))
             d0 == ls[i]
             d1 == IF i + 1 <= Len(ls) THEN ls[i + 1] ELSE ls[i]
         IN  IF mouseTime - TimeOf(d0) >= TimeOf(d1) - mouseTime
             THEN SomePoint(d1)
             ELSE SomePoint(d0)

\* findDataPointByX of part_003
findDataPointByXBisect(x, ls, scale) ==
    IF Len(ls) = 0 \/ ~scale.defined THEN NoPoint
    ELSE LET mouseTime == Invert(scale, x)
             i == BisectLeft(ls, mouseTime, 1, Len(ls))
             d0 == ls[i]
             d1 == IF i + 1 <= Len(ls) THEN ls[i + 1] ELSE ls[i]
         IN  IF mouseTime - TimeOf(d0) > TimeOf(d1) - mouseTime
             THEN SomePoint(d1)
             ELSE SomePoint(d0)

FindIn(v, x, ls, scale) ==
    IF v = "part_006" THEN findDataPointByX(x, ls, scale)
    ELSE findDataPointByXBisect(x, ls, scale)

-----------------------------------------------------------------------------
(* Inputs of the hit-testing check *)

MaxLines == 3

\* readings 20, 20 and 40 seconds apart; two levels tell apart two readings
\* of one instant
LinePoints == [dateTime : {DateStr("iso", T1 + k) : k \in {0, 20, 40, 80}}, value : {1, 2}]

Chronological(ls) ==
    \A i, j \in DOMAIN ls : i < j => TimeOf(ls[i]) <= TimeOf(ls[j])

PlotWidth == 42

\* the pointer on the plot, on its edges and just outside
PointerXs == (0 - 2)..(PlotWidth + 2)

InitFind ==
    /\ pc = "find"
    /\ variant \in Variants
    /\ chartLines \in {ls \in SeqsUpTo(LinePoints, MaxLines) : Chronological(ls)}
    /\ xScale = IF Len(chartLines) = 0 THEN NoScale ELSE createXScale(chartLines, PlotWidth)
    /\ pointerX \in PointerXs
    /\ dataPoint = NoPoint
    /\ ChartRestIdle
    /\ MergeIdle
    /\ StoreIdle
    /\ SimplifyIdle
    /\ CsvIdle
    /\ RangeIdle
    /\ FormatIdle
    /\ ToggleIdle
    /\ OverlapIdle

FindDataPointByX ==
    /\ pc = "find"
    /\ dataPoint' = FindIn(variant, pointerX, chartLines, xScale)
    /\ pc' = "found"
    /\ UNCHANGED <<variant, chartLines, xScale, pointerX, chartRest, restOfChart>>

NextFind == FindDataPointByX

SpecFind == InitFind /\ [][NextFind]_vars

-----------------------------------------------------------------------------
(* Claims about hit-testing *)

DistanceTo(p) == Abs(Invert(xScale, pointerX) - TimeOf(p))

\* C18: for every non-empty lines array in chronological order and every
\* pointer x, findDataPointByX returns a point of lines whose distance in
\* time from the pointer's time is the least over all points of lines, and
\* of two equally near points the earlier one.
C18_NearestPointEarlierOnTie ==
    (pc = "found" /\ Len(chartLines) > 0) =>
        /\ ~dataPoint.isNull
        /\ \E i \in DOMAIN chartLines : chartLines[i] = dataPoint.point
        /\ \A i \in DOMAIN chartLines :
              /\ DistanceTo(dataPoint.point) <= DistanceTo(chartLines[i])
              /\ DistanceTo(dataPoint.point) = DistanceTo(chartLines[i])
                    => TimeOf(dataPoint.point) <= TimeOf(chartLines[i])

\* C18 witness: the pointer stands midway between two readings, nearer to
\* them than to a third, and the earlier of the two was returned.
C18_Witness ==
    /\ pc = "found" /\ Len(chartLines) = 3
    /\ \E i \in DOMAIN chartLines :
          /\ TimeOf(chartLines[i]) > TimeOf(dataPoint.point)
          /\ DistanceTo(chartLines[i]) = DistanceTo(dataPoint.point)
    /\ \E i \in DOMAIN chartLines : DistanceTo(chartLines[i]) > DistanceTo(dataPoint.point)

\* C30 as stated: for every lines array in ascending order of dateTime,
\* arrays in which two points share a timestamp included, and every pointer
\* position, the bisector lookup and the full-scan lookup resolve the same
\* data point.
C30_VariantsResolveSamePoint ==
    pc = "found" =>
        /\ dataPoint = findDataPointByX(pointerX, chartLines, xScale)
        /\ dataPoint = findDataPointByXBisect(pointerX, chartLines, xScale)

\* C30, amended: for every lines array in ascending order of dateTime in
\* which no two points share a timestamp, and every pointer position, the
\* bisector lookup and the full-scan lookup resolve the same data point,
\* which is the point the loaded variant returned.
C30_VariantsResolveSamePointOfDistinctInstants ==
    (pc = "found" /\ NoRepeatedInstant(chartLines)) =>
        /\ dataPoint = findDataPointByX(pointerX, chartLines, xScale)
        /\ dataPoint = findDataPointByXBisect(pointerX, chartLines, xScale)

\* C30 witness: the bisector variant has looked up a pointer that stands
\* midway between two of three readings of distinct instants.
C30_Witness ==
    /\ pc = "found" /\ variant = "part_003"
    /\ Len(chartLines) = 3 /\ NoRepeatedInstant(chartLines)
    /\ \E i \in DOMAIN chartLines :
          /\ chartLines[i] # dataPoint.point
          /\ DistanceTo(chartLines[i]) = DistanceTo(dataPoint.point)

-----------------------------------------------------------------------------
(* Chart renderer: lineChart, its render pass and its event handlers         *)
(*                                                                           *)
(* lineChart(containerId, stationId, data) draws once, installs the event    *)
(* handlers and draws again on resize and when the mobile breakpoint is      *)
(* crossed.  In part_006 the handlers read margin, lines, xScale and yScale  *)
(* through getState() and the tooltip manager reads the height through       *)
(* getHeight().  In part_003 (and line-chart-refactored.js) the handlers     *)
(* get margin, lines and xScale as arguments of setupEventHandlers after     *)
(* the first pass, and the tooltip manager gets xScale, yScale and height    *)
(* as arguments before the first pass.                                       *)
(*                                                                           *)
(* The svg stands at the page's origin, so clientX is the x on the svg.  A   *)
(* y scale is known by its range only.  The caller binds `this`.             *)

MARGIN_TOP == 20
MARGIN_BOTTOM == 45
MARGIN_LEFT == 15
MOBILE_MARGIN_RIGHT_BASE == 31
DESKTOP_MARGIN_RIGHT_BASE == 36
MARGIN_CHAR_MULTIPLIER == 9
TOLERANCE_TIDE == 10000000
TOLERANCE_DEFAULT == 1000000
DECIMAL_PLACES == 2
DEFAULT_WIDTH == 800

\* milliseconds in a second: the tolerance is a distance in time
MS_PER_SECOND == 1000

\* simplifyByType
simplifyByType(d, dataType) ==
    IF dataType = "river" THEN d
    ELSE simplify(d, (IF dataType = "tide" THEN TOLERANCE_TIDE ELSE TOLERANCE_DEFAULT)
                        \div MS_PER_SECOND)

\* l.isSignificant is true: simplify has set it on its copies
IsSignificant(l) == "isSignificant" \in DOMAIN l /\ l.isSignificant

\* { ...l, type }: a point of lines; isSignificant FALSE stands for not set
LinePoint(l, type, significant) ==
    [dateTime |-> l.dateTime, value |-> l.value, err |-> l.err, type |-> type,
     isSignificant |-> significant]

Reverse(q) == [i \in DOMAIN q |-> q[Len(q) + 1 - i]]

\* processed.filter(l => !l.err).map(l => ({ ...l, type: 'observed' })).reverse()
ObservedLines(processed) ==
    LET kept == SelectSeq(processed, LAMBDA l : ~l.err)
    IN  Reverse([i \in DOMAIN kept |-> LinePoint(kept[i], "observed", IsSignificant(kept[i]))])

\* processObservedData
processObservedData(observed, dataType) ==
    ObservedLines(simplifyByType(observed, dataType))

\* markFirstForecastSignificance: the value forecast[0].isSignificant has
\* after the call
FirstForecastSignificant(observed, forecast) ==
    IF ~observed.isArray \/ Len(observed.items) = 0 THEN IsSignificant(forecast[1])
    ELSE ~(/\ TimeOf(observed.items[1]) = TimeOf(forecast[1])
           /\ observed.items[1].value = forecast[1].value)

\* markFirstForecastSignificance(observed, processed), then
\* processed.map(l => ({ ...l, type: 'forecast' }))
ForecastLines(processed, observed) ==
    [i \in DOMAIN processed |->
        LinePoint(processed[i], "forecast",
                  IF i = 1 THEN FirstForecastSignificant(observed, processed)
                  ELSE IsSignificant(processed[i]))]

\* processForecastData
processForecastData(forecast, dataType, observed) ==
    ForecastLines(simplifyByType(forecast, dataType), observed)

\* processData(dataCache).lines
processData(d) ==
    LET observedPoints ==
            IF d.observed.isArray /\ Len(d.observed.items) > 0
            THEN processObservedData(d.observed.items, d.type) ELSE <<>>
        forecastPoints ==
            IF d.forecast.isArray /\ Len(d.forecast.items) > 0
            THEN processForecastData(d.forecast.items, d.type, d.observed) ELSE <<>>
    IN  observedPoints \o forecastPoints

\* the data object after processData(dataCache): markFirstForecastSignificance
\* assigns forecast[0].isSignificant on the array simplifyByType returned,
\* which for type river, and for up to two points, is dataCache.forecast
\* itself; for more points simplify returns copies
Marked(d) ==
    IF /\ d.forecast.isArray /\ Len(d.forecast.items) > 0
       /\ d.observed.isArray /\ Len(d.observed.items) > 0
       /\ (d.type = "river" \/ Len(d.forecast.items) <= 2)
    THEN [d EXCEPT !.forecast.items[1].significant =
                      IF FirstForecastSignificant(d.observed, d.forecast.items)
                      THEN "true" ELSE "false"]
    ELSE d

\* yScale.domain()[1].toFixed(1).length - DECIMAL_PLACES, for levels whose
\* upper tick is under 10: "2.5".length
NumChars == 3 - DECIMAL_PLACES

MarginOf(mobile) ==
    [defined |-> TRUE, top |-> MARGIN_TOP, bottom |-> MARGIN_BOTTOM, left |-> MARGIN_LEFT,
     right |-> (IF mobile THEN MOBILE_MARGIN_RIGHT_BASE ELSE DESKTOP_MARGIN_RIGHT_BASE)
                  + NumChars * MARGIN_CHAR_MULTIPLIER]

\* renderChart with the container measuring r and the viewport mobile or
\* not, from `lines = processedData.lines` on: the closure variables after
\* the pass, and whether it threw.
\* observed.concat(forecast) throws a TypeError when observed is undefined;
\* with forecast undefined the array ends in undefined and the accessor of
\* extent throws on d.dateTime.
RenderWith(ls, r, mobile) ==
    LET same == [threw |-> FALSE, drawn |-> FALSE, lines |-> ls, xScale |-> xScale,
                 yScale |-> yScale, margin |-> margin, width |-> width, height |-> height]
    IN  IF Len(ls) = 0 THEN same
        ELSE IF ~chartData.observed.isArray \/ ~chartData.forecast.isArray
        THEN [same EXCEPT !.threw = TRUE]
        ELSE LET m == MarginOf(mobile)
                 w == r.w - m.left - m.right
                 h == r.h - m.top - m.bottom
                 first == createXScale(chartData.observed.items \o chartData.forecast.items,
                                       IF width.defined /\ width.n # 0 THEN width.n
                                       ELSE DEFAULT_WIDTH)
             IN  [threw |-> FALSE, drawn |-> TRUE, lines |-> ls,
                  xScale |-> [first EXCEPT !.width = w],
                  yScale |-> [defined |-> TRUE, height |-> h],
                  margin |-> m, width |-> Px(w), height |-> Px(h)]

renderChart(r, mobile) == RenderWith(processData(chartData), r, mobile)

\* the closure variables take the values the pass left, the data object is
\* as processData left it, and a pass that got to the render calls has drawn
\* the chart into what the container held (before)
Rendered(res, before) ==
    /\ chartData' = Marked(chartData)
    /\ dom' = (IF res.drawn THEN "chart" ELSE before)
    /\ chartLines' = res.lines
    /\ xScale' = res.xScale
    /\ yScale' = res.yScale
    /\ margin' = res.margin
    /\ width' = res.width
    /\ height' = res.height

\* tooltipManager.hide()
Hide ==
    /\ tooltipVisible' = FALSE
    /\ locatorVisible' = FALSE

\* lineChart from initializeSVG on, which replaces the container's content
\* by a new svg; res is what the initial renderChart() does
Started(res) ==
    /\ tipCaptured' = TooltipArgs(xScale, yScale, height)
    /\ Rendered(res, "svg")
    /\ IF res.threw
       THEN pc' = "threw" /\ UNCHANGED captured
       ELSE /\ pc' = "interactive"
            /\ captured' = HandlerArgs(res.margin, res.lines, res.xScale)

\* lineChart(containerId, stationId, data)
LineChart ==
    /\ pc = "page"
    /\ IF ~container \/ ~chartData.present
       THEN /\ pc' = "aborted"
            /\ UNCHANGED <<chartLines, xScale, yScale, margin, width, height, captured,
                           tipCaptured, chartData, dom>>
       ELSE Started(renderChart(rect, isMobile))
    /\ UNCHANGED <<variant, pointerX, dataPoint, container, rect, isMobile,
                   interfaceType, lastClient, tooltipVisible, locatorVisible, handlerThrew,
                   touchPending, fought, used, atUse, restOfChart>>

\* the sizes the container takes
Sizes == {[w |-> 400, h |-> 300], [w |-> 700, h |-> 400]}

\* window resize: the container has a new size
Resize(size) ==
    /\ pc = "interactive"
    /\ rect' = size
    /\ Hide
    /\ Rendered(renderChart(size, isMobile), dom)
    /\ handlerThrew' = FALSE
    /\ UNCHANGED <<pc, variant, pointerX, dataPoint, container, isMobile, captured,
                   tipCaptured, interfaceType, lastClient, touchPending, fought, used, atUse,
                   restOfChart>>

\* change event of the media query
BreakpointChange ==
    /\ pc = "interactive"
    /\ isMobile' = ~isMobile
    /\ Hide
    /\ Rendered(renderChart(rect, ~isMobile), dom)
    /\ handlerThrew' = FALSE
    /\ UNCHANGED <<pc, variant, pointerX, dataPoint, container, rect, captured,
                   tipCaptured, interfaceType, lastClient, touchPending, fought, used, atUse,
                   restOfChart>>

\* margin, lines and xScale as the handlers see them
HandlerState ==
    IF variant = "part_006" THEN HandlerArgs(margin, chartLines, xScale) ELSE captured

\* xScale, yScale and height as the tooltip manager sees them on show
TooltipState ==
    IF variant = "part_006" THEN TooltipArgs(HandlerState.xScale, yScale, height)
    ELSE tipCaptured

\* the tail of handleMouseMove, handleClick and handleTouchMove: the point
\* under x is looked up and handed to tooltipManager.show.  show returns on
\* null; it sets the texts and locator--visible, then calls xScale, which
\* throws a TypeError when the tooltip manager's xScale is undefined;
\* setPosition sets tooltip--visible.
ResolveAndShow(x) ==
    LET hs == HandlerState
        ts == TooltipState
        found == FindIn(variant, x - hs.margin.left, hs.lines, hs.xScale)
    IN  /\ pointerX' = x - hs.margin.left
        /\ dataPoint' = found
        /\ IF found.isNull
           THEN UNCHANGED <<tooltipVisible, locatorVisible, used, atUse>> /\ handlerThrew' = FALSE
           ELSE /\ locatorVisible' = TRUE
                /\ tooltipVisible' = (tooltipVisible \/ ts.xScale.defined)
                /\ handlerThrew' = ~ts.xScale.defined
                /\ used' = RenderStateOf(hs.margin, hs.lines, hs.xScale,
                                         ts.xScale, ts.yScale, ts.height)
                /\ atUse' = RenderStateOf(margin, chartLines, xScale, xScale, yScale, height)

\* the handler returns before it looks anything up
ReturnEarly ==
    /\ handlerThrew' = FALSE
    /\ UNCHANGED <<pointerX, dataPoint, tooltipVisible, locatorVisible, used, atUse>>

\* `margin.left` on an undefined margin
ThrowOnMargin ==
    /\ handlerThrew' = TRUE
    /\ UNCHANGED <<pointerX, dataPoint, tooltipVisible, locatorVisible, used, atUse>>

\* where the pointer or the finger can be
Positions == [x : {MARGIN_LEFT, 100, 300}, y : {50}]

\* handleMouseMove
MouseMove(pos) ==
    /\ pc = "interactive"
    /\ touchPending' = FALSE
    /\ IF lastClient = pos
       THEN ReturnEarly /\ UNCHANGED <<lastClient, interfaceType, fought>>
       ELSE /\ lastClient' = pos
            /\ IF ~HandlerState.xScale.defined
               THEN ReturnEarly /\ UNCHANGED <<interfaceType, fought>>
               ELSE IF interfaceType = "touch"
               THEN ReturnEarly /\ interfaceType' = "mouse" /\ UNCHANGED fought
               ELSE /\ interfaceType' = "mouse"
                    /\ ResolveAndShow(pos.x)
                    /\ fought' = (fought \/ touchPending)
    /\ UNCHANGED <<variant, chartLines, xScale, container, chartData, rect, isMobile, width,
                   height, margin, yScale, captured, tipCaptured, dom,
                   restOfChart>>
    /\ UNCHANGED pc

\* handleClick
Click(pos) ==
    /\ pc = "interactive"
    /\ IF ~HandlerState.margin.defined THEN ThrowOnMargin ELSE ResolveAndShow(pos.x)
    /\ UNCHANGED <<pc, variant, chartLines, xScale, container, chartData, rect, isMobile,
                   width, height, margin, yScale, captured, tipCaptured, interfaceType,
                   lastClient, touchPending, fought, dom,
                   restOfChart>>

\* touchstart
TouchStart ==
    /\ pc = "interactive"
    /\ interfaceType' = "touch"
    /\ touchPending' = TRUE
    /\ handlerThrew' = FALSE
    /\ UNCHANGED <<pc, variant, chartLines, xScale, pointerX, dataPoint, container, chartData,
                   rect, isMobile, width, height, margin, yScale, captured, tipCaptured,
                   lastClient, tooltipVisible, locatorVisible, fought, used, atUse,
                   dom,
                   restOfChart>>

\* handleTouchMove
TouchMove(pos) ==
    /\ pc = "interactive"
    /\ IF ~HandlerState.xScale.defined THEN ReturnEarly ELSE ResolveAndShow(pos.x)
    /\ UNCHANGED <<pc, variant, chartLines, xScale, container, chartData, rect, isMobile,
                   width, height, margin, yScale, captured, tipCaptured, interfaceType,
                   lastClient, touchPending, fought, dom,
                   restOfChart>>

\* touchend
TouchEnd ==
    /\ pc = "interactive"
    /\ interfaceType' = "null"
    /\ handlerThrew' = FALSE
    /\ UNCHANGED <<pc, variant, chartLines, xScale, pointerX, dataPoint, container, chartData,
                   rect, isMobile, width, height, margin, yScale, captured, tipCaptured,
                   lastClient, tooltipVisible, locatorVisible, touchPending, fought, used,
                   atUse, dom,
                   restOfChart>>

\* mouseleave on the container
MouseLeave ==
    /\ pc = "interactive"
    /\ Hide
    /\ handlerThrew' = FALSE
    /\ UNCHANGED <<pc, variant, chartLines, xScale, pointerX, dataPoint, container, chartData,
                   rect, isMobile, width, height, margin, yScale, captured, tipCaptured,
                   interfaceType, lastClient, touchPending, fought, used, atUse, dom,
                   restOfChart>>

-----------------------------------------------------------------------------
(* Inputs of the chart check *)

\* a reading; the API delivers observed readings newest first; significant
\* is the property isSignificant of the object: unset, "true" or "false"
Reading(at, level, err) ==
    [dateTime |-> DateStr("iso", at), value |-> level, err |-> err, significant |-> "unset"]

ObservedOptions ==
    { Null,
      Arr(<<>>),
      Arr(<<Reading(T1 + 40, 2, FALSE), Reading(T1 + 20, 1, FALSE)>>),
      Arr(<<Reading(T1 + 40, 2, TRUE), Reading(T1 + 20, 1, FALSE)>>),
      Arr(<<Reading(T1 + 40, 2, TRUE), Reading(T1 + 20, 1, TRUE)>>) }

ForecastOptions ==
    { Null,
      Arr(<<>>),
      Arr(<<Reading(T1 + 80, 2, FALSE)>>) }

ChartDatas ==
    {[present |-> FALSE, observed |-> Null, forecast |-> Null, type |-> "river"]}
        \cup [present : {TRUE}, observed : ObservedOptions, forecast : ForecastOptions,
              type : {"river", "tide"}]

InitChart ==
    /\ pc = "page"
    /\ variant \in Variants
    /\ container \in BOOLEAN
    /\ chartData \in ChartDatas
    /\ rect \in Sizes
    /\ isMobile \in BOOLEAN
    /\ dom \in (IF container THEN {"nothing", "prior"} ELSE {"nothing"})
    /\ chartLines = <<>>
    /\ xScale = NoScale
    /\ pointerX = 0
    /\ dataPoint = NoPoint
    /\ width = NoPx
    /\ height = NoPx
    /\ margin = NoMargin
    /\ yScale = NoYScale
    /\ captured = HandlerArgs(NoMargin, <<>>, NoScale)
    /\ tipCaptured = TooltipArgs(NoScale, NoYScale, NoPx)
    /\ interfaceType = "null"
    /\ lastClient = NoClient
    /\ tooltipVisible = FALSE
    /\ locatorVisible = FALSE
    /\ handlerThrew = FALSE
    /\ touchPending = FALSE
    /\ fought = FALSE
    /\ used = NoRenderState
    /\ atUse = NoRenderState
    /\ MergeIdle
    /\ StoreIdle
    /\ SimplifyIdle
    /\ CsvIdle
    /\ RangeIdle
    /\ FormatIdle
    /\ ToggleIdle
    /\ OverlapIdle

NextChart ==
    \/ LineChart
    \/ \E size \in Sizes : Resize(size)
    \/ BreakpointChange
    \/ \E pos \in Positions : MouseMove(pos)
    \/ \E pos \in Positions : Click(pos)
    \/ TouchStart
    \/ \E pos \in Positions : TouchMove(pos)
    \/ TouchEnd
    \/ MouseLeave

SpecChart == InitChart /\ [][NextChart]_vars

-----------------------------------------------------------------------------
(* Claims about the chart *)

\* C17 as stated: after a touchstart on the chart, the next mousemove
\* delivered to the chart looks up no data point and neither shows nor moves
\* the tooltip or the locator, whatever touchmove and touchend events come
\* between the two.
C17_TouchSuppressesNextMouseMove == ~fought

\* C19 as stated: after any sequence of render passes, a pointer move, touch
\* move or click resolves the data point and positions the tooltip and the
\* locator with the scales, margin, height and lines of the most recent
\* render pass, in every renderer variant, never with undefined or stale
\* values.
C19_InteractionUsesLatestRenderState == used = atUse

\* C20 as stated: no call of lineChart lets an exception reach its caller,
\* whether the container is missing, the data absent, the observed or the
\* forecast array lacking, there is a forecast and no observed point, or all
\* observed points are err: the call renders, or logs and returns.
C20_LineChartNeverThrows == pc # "threw"

\* C21 as stated: a render pass or a lineChart call whose Processing yields
\* no lines leaves the chart the container held, drawn by this instance or
\* by an earlier lineChart call, exactly as it was.
C21_EmptyLinesLeavePriorChart ==
    [][(Len(chartLines') = 0 /\ dom \in {"prior", "chart"}) => dom' = dom]_vars

-----------------------------------------------------------------------------
(* Processing and the y domain, as functions of the data object *)

RANGE_BUFFER_DIVISOR == 3
MIN_RANGE_VALUE == 1

\* calculateYScaleDomain without the floor of the lower bound for rivers
calculateYScaleDomainNoFloor(ls, dataType) ==
    LET values == {ls[i].value : i \in DOMAIN ls}
        yExtentDataMin == MinOf(values)
        yExtentDataMax == MaxOf(values)
        valueRange == MaxOf({yExtentDataMax - yExtentDataMin, MIN_RANGE_VALUE})
    IN  [defined |-> TRUE, min |-> RANGE_BUFFER_DIVISOR * yExtentDataMin - valueRange,
         max |-> MaxOf({RANGE_BUFFER_DIVISOR * yExtentDataMax + valueRange,
                        RANGE_BUFFER_DIVISOR * MIN_RANGE_VALUE})]

\* calculateYScaleDomain; min and max are counted in thirds
\* (1 / RANGE_BUFFER_DIVISOR) of the unit of the values
calculateYScaleDomain(ls, dataType) ==
    LET values == {ls[i].value : i \in DOMAIN ls}
        yExtentDataMin == MinOf(values)
        yExtentDataMax == MaxOf(values)
        valueRange == MaxOf({yExtentDataMax - yExtentDataMin, MIN_RANGE_VALUE})
        yRangeUpperBuffered == RANGE_BUFFER_DIVISOR * yExtentDataMax + valueRange
        yRangeLowerBuffered == RANGE_BUFFER_DIVISOR * yExtentDataMin - valueRange
        upperBound == MaxOf({RANGE_BUFFER_DIVISOR * yExtentDataMax, yRangeUpperBuffered})
        lowerBound == IF dataType = "river" THEN MaxOf({yRangeLowerBuffered, 0})
                      ELSE yRangeLowerBuffered
    IN  [defined |-> TRUE, min |-> lowerBound,
         max |-> MaxOf({upperBound, RANGE_BUFFER_DIVISOR * MIN_RANGE_VALUE})]

\* the rest of the model while a data object is processed
restOfProcess ==
    <<mergeVars, storeVars, csvVars, rangeVars, simplifyVars, toggleVars, overlapVars,
      variant, xScale,
      pointerX, dataPoint, container, rect, isMobile, width, height, margin, yScale,
      captured, tipCaptured, interfaceType, lastClient, tooltipVisible, locatorVisible,
      handlerThrew, touchPending, fought, used, atUse, dom, readings, telemetry>>

\* processData(dataCache)
ProcessData ==
    /\ pc = "process"
    /\ chartLines' = processData(chartData)
    /\ chartData' = Marked(chartData)
    /\ pc' = "processed"
    /\ UNCHANGED <<dataBefore, yDomain, restOfProcess>>

\* createYScale(lines, dataCache.type, ...), called when lines is not empty
CalculateYScaleDomain ==
    /\ pc = "processed"
    /\ Len(chartLines) > 0
    /\ yDomain' = calculateYScaleDomain(chartLines, chartData.type)
    /\ pc' = "scaled"
    /\ UNCHANGED <<chartLines, chartData, dataBefore, restOfProcess>>

\* observed readings at two instants, below and above zero, and an err one
ObservedReadings ==
    {Reading(T1 + k, v, FALSE) : k \in {20, 40}, v \in {0 - 2, 2}}
        \cup {Reading(T1 + 40, 2, TRUE)}

\* forecast readings at the instant of the latest observed one and later
ForecastReadings == {Reading(T1 + k, v, FALSE) : k \in {40, 80}, v \in {2, 5}}

MaxReadings == 2

ProcessDatas ==
    [present : {TRUE},
     observed : {Null} \cup {Arr(q) : q \in SeqsUpTo(ObservedReadings, MaxReadings)},
     forecast : {Null} \cup {Arr(q) : q \in SeqsUpTo(ForecastReadings, MaxReadings)},
     type : {"river", "tide"}]

InitProcess ==
    /\ pc = "process"
    /\ chartData \in ProcessDatas
    /\ dataBefore = chartData
    /\ chartLines = <<>>
    /\ yDomain = NoDomain
    /\ readings = <<>>
    /\ telemetry = NoTelemetry
    /\ variant = "part_006"
    /\ xScale = NoScale
    /\ pointerX = 0
    /\ dataPoint = NoPoint
    /\ container = FALSE
    /\ rect = [w |-> 0, h |-> 0]
    /\ isMobile = FALSE
    /\ width = NoPx
    /\ height = NoPx
    /\ margin = NoMargin
    /\ yScale = NoYScale
    /\ captured = HandlerArgs(NoMargin, <<>>, NoScale)
    /\ tipCaptured = TooltipArgs(NoScale, NoYScale, NoPx)
    /\ interfaceType = "null"
    /\ lastClient = NoClient
    /\ tooltipVisible = FALSE
    /\ locatorVisible = FALSE
    /\ handlerThrew = FALSE
    /\ touchPending = FALSE
    /\ fought = FALSE
    /\ used = NoRenderState
    /\ atUse = NoRenderState
    /\ dom = "nothing"
    /\ MergeIdle
    /\ StoreIdle
    /\ SimplifyIdle
    /\ CsvIdle
    /\ RangeIdle
    /\ ToggleIdle
    /\ OverlapIdle

NextProcess == ProcessData \/ CalculateYScaleDomain

SpecProcess == InitProcess /\ [][NextProcess]_vars

-----------------------------------------------------------------------------
(* Claims about Processing and the y domain *)

Processed == pc \in {"processed", "scaled"}

ObservedGiven == IF dataBefore.observed.isArray THEN dataBefore.observed.items ELSE <<>>

ForecastGiven == IF dataBefore.forecast.isArray THEN dataBefore.forecast.items ELSE <<>>

NewestFirst(q) == \A i, j \in DOMAIN q : i < j => TimeOf(q[i]) > TimeOf(q[j])

OldestFirst(q) == \A i, j \in DOMAIN q : i < j => TimeOf(q[i]) < TimeOf(q[j])

ObservedOfLines == SelectSeq(chartLines, LAMBDA l : l.type = "observed")

ForecastOfLines == SelectSeq(chartLines, LAMBDA l : l.type = "forecast")

\* C24 as stated: with observed and forecast both non-empty, Processing
\* sets isSignificant of the first forecast point to true exactly when its
\* (dateTime, value) differs from that of the most recent observed point,
\* whether observed was given newest-first or oldest-first.
C24_FirstForecastSignificantIffDiffersFromLatest ==
    (/\ Processed
     /\ Len(ObservedGiven) > 0 /\ Len(ForecastGiven) > 0
     /\ (NewestFirst(ObservedGiven) \/ OldestFirst(ObservedGiven)))
        => LET latest == CHOOSE p \in RangeOf(ObservedGiven) :
                            \A q \in RangeOf(ObservedGiven) : TimeOf(q) <= TimeOf(p)
               first == ForecastOfLines[1]
           IN  first.isSignificant
                   <=> ~(TimeOf(first) = TimeOf(latest) /\ first.value = latest.value)

\* C25 as stated: after Processing, for an observed series given
\* newest-first or oldest-first, the observed points of lines (err points
\* removed) are oldest-first.
C25_ObservedLinesOldestFirst ==
    (Processed /\ (NewestFirst(ObservedGiven) \/ OldestFirst(ObservedGiven)))
        => OldestFirst(ObservedOfLines)

\* C26: for every non-empty lines array, the y domain before nice rounding
\* is [lo, hi] with range = max(1, dataMax - dataMin),
\* hi = max(dataMax + range / 3, 1) and lo = dataMin - range / 3, lo raised
\* to 0 for type river when it would be negative and never for other types;
\* lo < hi.  The formula counts in thirds.
C26_YDomainBufferedAndFloored ==
    pc = "scaled" =>
        LET values == {chartLines[i].value : i \in DOMAIN chartLines}
            dataMin == CHOOSE v \in values : \A u \in values : v <= u
            dataMax == CHOOSE v \in values : \A u \in values : v >= u
            valueRange == IF dataMax - dataMin > 1 THEN dataMax - dataMin ELSE 1
            hi == IF 3 * dataMax + valueRange > 3 THEN 3 * dataMax + valueRange ELSE 3
            lo == 3 * dataMin - valueRange
        IN  /\ yDomain.defined
            /\ yDomain.max = hi
            /\ yDomain.min = (IF chartData.type = "river" /\ lo < 0 THEN 0 ELSE lo)
            /\ yDomain.min < yDomain.max

\* C26 witness: a river series whose buffered lower bound is negative got
\* the lower bound 0.
C26_Witness ==
    /\ pc = "scaled" /\ chartData.type = "river"
    /\ \E i \in DOMAIN chartLines : chartLines[i].value < 0
    /\ \E i, j \in DOMAIN chartLines : chartLines[i].value # chartLines[j].value
    /\ yDomain.min = 0

\* C27 as stated: Processing never modifies the arrays or the point objects
\* it is given: after it, every input array holds the same elements in the
\* same order and every point the same fields and values as before.
C27_ProcessingLeavesInputUnchanged == Processed => chartData = dataBefore

-----------------------------------------------------------------------------
(* formatTelemetryData (lib/flood-service.js) *)

\* formatTelemetryData(readings).  fiveDaysAgo is the time of the call five
\* calendar days back, here five times 24 hours; a reading whose dateTime is
\* no date compares false and is dropped.
formatTelemetryData(rs) ==
    LET fiveDaysAgo == NOW - 5 * MS_PER_DAY
        filteredReadings ==
            SelectSeq(rs, LAMBDA reading :
                IsValidDate(reading.dateTime) /\ ParseDate(reading.dateTime) >= fiveDaysAgo)
    IN  [defined |-> TRUE,
         observed |-> [i \in DOMAIN filteredReadings |->
                          [dateTime |-> filteredReadings[i].dateTime,
                           value |-> filteredReadings[i].value, err |-> FALSE]],
         forecast |-> <<>>,
         latestDateTime |-> IF Len(filteredReadings) > 0
                            THEN filteredReadings[Len(filteredReadings)].dateTime
                            ELSE DateStr("iso.ms", NOW),
         type |-> "river"]

\* readings of the last hours, one six days old and one without a date
TelemetryReadings ==
    {[dateTime |-> DateStr("iso", t), value |-> 1] : t \in {NOW - 6 * MS_PER_DAY, T1, T2, T3}}
        \cup {[dateTime |-> Word("not-a-date"), value |-> 1]}

MaxTelemetry == 3

\* the rest of the model while readings are formatted
restOfTelemetry ==
    <<mergeVars, storeVars, csvVars, rangeVars, simplifyVars, chartVars, toggleVars,
      overlapVars,
      dataBefore, yDomain>>

InitTelemetry ==
    /\ pc = "format"
    /\ readings \in SeqsUpTo(TelemetryReadings, MaxTelemetry)
    /\ telemetry = NoTelemetry
    /\ dataBefore = [present |-> FALSE, observed |-> Null, forecast |-> Null, type |-> "river"]
    /\ yDomain = NoDomain
    /\ MergeIdle
    /\ StoreIdle
    /\ SimplifyIdle
    /\ ChartIdle
    /\ CsvIdle
    /\ RangeIdle
    /\ ToggleIdle
    /\ OverlapIdle

FormatTelemetryData ==
    /\ pc = "format"
    /\ telemetry' = formatTelemetryData(readings)
    /\ pc' = "formatted"
    /\ UNCHANGED <<readings, restOfTelemetry>>

NextTelemetry == FormatTelemetryData

SpecTelemetry == InitTelemetry /\ [][NextTelemetry]_vars

\* C23 as stated: for every non-empty readings input, in whatever order the
\* readings arrive, latestDateTime is the dateTime of the most recent reading
\* kept in observed, so no observed point is later than latestDateTime.
C23_LatestDateTimeIsMostRecentObserved ==
    (pc = "formatted" /\ Len(telemetry.observed) > 0) =>
        /\ \E i \in DOMAIN telemetry.observed :
              telemetry.observed[i].dateTime = telemetry.latestDateTime
        /\ \A i \in DOMAIN telemetry.observed :
              ParseDate(telemetry.observed[i].dateTime) <= ParseDate(telemetry.latestDateTime)

-----------------------------------------------------------------------------
(* Toggletips (toggletip component) *)

\* the elements with data-toggletip of the page
Toggletips == {"a", "b"}

\* calls of window.setTimeout the model follows
MaxTimers == 4

\* clearTimeout(id): the timer of that id that has not run, if any, is removed
clearTimeout(waiting, id) == {t \in waiting : t.id # id}

\* the state closeToggletips leaves: clearTimeout(timeout), currentToggletip
\* = null, no element has the class defra-toggletip--open
Closed(waiting) ==
    /\ currentToggletip' = "null"
    /\ openTips' = {}
    /\ timers' = waiting

\* openToggletip(toggletip) with the timers that have not run:
\* timeout = window.setTimeout(..., 100); an earlier timer is not cleared
openToggletip(waiting, toggletip) ==
    /\ nextTimer <= MaxTimers
    /\ timeout' = nextTimer
    /\ nextTimer' = nextTimer + 1
    /\ timers' = waiting \cup {[id |-> nextTimer, toggletip |-> toggletip]}
    /\ quiet' = FALSE

\* closeToggletips() as the whole of a listener
closeToggletips ==
    /\ Closed(clearTimeout(timers, timeout))
    /\ quiet' = TRUE
    /\ UNCHANGED <<timeout, nextTimer>>

\* click on the button of a toggletip
ClickTarget(toggletip) ==
    /\ pc = "toggletips"
    /\ openToggletip(timers, toggletip)
    /\ UNCHANGED <<pc, currentToggletip, openTips, restOfToggle>>

\* click outside the targets and the info boxes
ClickElsewhere ==
    /\ pc = "toggletips"
    /\ closeToggletips
    /\ UNCHANGED <<pc, restOfToggle>>

\* keyup of Escape
KeyupEscape ==
    /\ pc = "toggletips"
    /\ closeToggletips
    /\ UNCHANGED <<pc, restOfToggle>>

\* mouseenter on a target; nothing is requested while a toggletip is current
MouseEnterTarget(toggletip) ==
    /\ pc = "toggletips"
    /\ IF currentToggletip = "null"
       THEN openToggletip(timers, toggletip)
       ELSE /\ quiet' = FALSE
            /\ UNCHANGED <<timeout, nextTimer, timers>>
    /\ UNCHANGED <<pc, currentToggletip, openTips, restOfToggle>>

\* mouseleave of a toggletip container
MouseLeaveContainer ==
    /\ pc = "toggletips"
    /\ closeToggletips
    /\ UNCHANGED <<pc, restOfToggle>>

\* focusin inside a toggletip: closeToggletips(), then openToggletip
FocusIn(toggletip) ==
    /\ pc = "toggletips"
    /\ currentToggletip' = "null"
    /\ openTips' = {}
    /\ openToggletip(clearTimeout(timers, timeout), toggletip)
    /\ UNCHANGED <<pc, restOfToggle>>

\* focusout inside a toggletip
FocusOut ==
    /\ pc = "toggletips"
    /\ closeToggletips
    /\ UNCHANGED <<pc, restOfToggle>>

\* the callback of a timer runs, 100 ms after it was set; timers of the same
\* delay run in the order they were set
TimerFires(t) ==
    /\ pc = "toggletips"
    /\ t \in timers
    /\ \A u \in timers : t.id <= u.id
    /\ timers' = clearTimeout(timers \ {t}, timeout)
    /\ currentToggletip' = t.toggletip
    /\ openTips' = {t.toggletip}
    /\ UNCHANGED <<pc, timeout, nextTimer, quiet, restOfToggle>>

\* createToggletips() has run
InitToggle ==
    /\ pc = "toggletips"
    /\ ToggleIdle
    /\ OverlapIdle
    /\ MergeIdle
    /\ StoreIdle
    /\ SimplifyIdle
    /\ ChartIdle
    /\ CsvIdle
    /\ RangeIdle
    /\ FormatIdle

NextToggle ==
    \/ \E toggletip \in Toggletips : ClickTarget(toggletip)
    \/ ClickElsewhere
    \/ KeyupEscape
    \/ \E toggletip \in Toggletips : MouseEnterTarget(toggletip)
    \/ MouseLeaveContainer
    \/ \E toggletip \in Toggletips : FocusIn(toggletip)
    \/ FocusOut
    \/ \E t \in timers : TimerFires(t)

SpecToggle == InitToggle /\ [][NextToggle]_vars

\* C29 as stated: once closeToggletips has run on Escape, a click outside,
\* focusout or mouseleave of the container, no toggletip is open and none
\* becomes open until a further click, mouseenter or focusin on a target:
\* no open timer set before the close runs after it.
C29_NoToggletipOpensAfterClose == quiet => (openTips = {} /\ currentToggletip = "null")

-----------------------------------------------------------------------------
(* Storage calls that overlap in time *)
(*                                                                           *)
(* Every call opens a connection of its own and runs one transaction on it. *)
(* IndexedDB answers the open requests on one database in the order they    *)
(* were made, and starts a transaction when no transaction created before   *)
(* it on the same store is unfinished, unless both only read.               *)

MaxCalls == 3

\* the datasets saved, one point each and all different
SavedDatasets == {<<p>> : p \in StorePoints}

Call(name, data) ==
    [name |-> name, arg |-> data, stage |-> "opening", result |-> Pending,
     wrote |-> FALSE,
     overlapped |-> \E j \in DOMAIN calls : calls[j].stage # "done"]

Unfinished(c) == c.stage \in {"created", "committing"}

\* the transaction of call i is not started after one created later
MayStartAny(cs, i) == TRUE

\* db.transaction([STORE_NAME], mode): the transaction of call i starts when
\* every transaction created before it that it must not overlap is finished
MayStart(cs, i) ==
    \A j \in 1..(i - 1) :
        Unfinished(cs[j]) => (cs[i].name = "load" /\ cs[j].name = "load")

Becomes(i, stage, result, wrote) ==
    calls' = [calls EXCEPT ![i].stage = stage, ![i].result = result, ![i].wrote = wrote]

\* the rest of the model while storage calls overlap
restOfOverlap ==
    <<mergeVars, csvVars, rangeVars, simplifyVars, chartVars, processVars, toggleVars,
      pending, op, outcome, failed, escaped, lastSave, clearedSince, committed>>

\* saveHistoricData(data) is called: indexedDB.open is requested
SaveStarted(data) ==
    /\ pc = "overlap"
    /\ Len(calls) < MaxCalls
    /\ calls' = Append(calls, Call("save", data))
    /\ UNCHANGED <<pc, slot, restOfOverlap>>

\* loadHistoricData() is called: indexedDB.open is requested
LoadStarted ==
    /\ pc = "overlap"
    /\ Len(calls) < MaxCalls
    /\ calls' = Append(calls, Call("load", <<>>))
    /\ UNCHANGED <<pc, slot, restOfOverlap>>

\* request.onerror of indexedDB.open, answered by the catch block, or the
\* executor throws after the open and the returned promise rejects
OpenFails(i) ==
    /\ pc = "overlap"
    /\ calls[i].stage = "opening"
    /\ \A j \in 1..(i - 1) : calls[j].stage # "opening"
    /\ \E result \in {Resolved(CatchValue(calls[i].name)), Rejected} :
          Becomes(i, "done", result, FALSE)
    /\ UNCHANGED <<pc, slot, restOfOverlap>>

\* request.onsuccess of indexedDB.open; the executor creates the transaction
\* and issues put or get before any other event is handled
OpenSucceeds(i) ==
    /\ pc = "overlap"
    /\ calls[i].stage = "opening"
    /\ \A j \in 1..(i - 1) : calls[j].stage # "opening"
    /\ Becomes(i, "created", Pending, FALSE)
    /\ UNCHANGED <<pc, slot, restOfOverlap>>

\* the transaction started and request.onsuccess runs: resolve(true) or
\* resolve(request.result || null)
RequestSucceeds(i) ==
    /\ pc = "overlap"
    /\ calls[i].stage = "created"
    /\ MayStart(calls, i)
    /\ Becomes(i, "committing",
               IF calls[i].name = "load" THEN Resolved(ResultOrNull(slot))
                                         ELSE Resolved(JsBool(TRUE)),
               FALSE)
    /\ UNCHANGED <<pc, slot, restOfOverlap>>

\* the transaction started and request.onerror runs: reject(request.error),
\* the transaction aborts
RequestFails(i) ==
    /\ pc = "overlap"
    /\ calls[i].stage = "created"
    /\ MayStart(calls, i)
    /\ Becomes(i, "done", Rejected, FALSE)
    /\ UNCHANGED <<pc, slot, restOfOverlap>>

\* transaction.oncomplete: the write is in the store, db.close()
TransactionCompletes(i) ==
    /\ pc = "overlap"
    /\ calls[i].stage = "committing"
    /\ Becomes(i, "done", calls[i].result, calls[i].name = "save")
    /\ slot' = IF calls[i].name = "save" THEN StorePut(slot, calls[i].arg) ELSE slot
    /\ UNCHANGED <<pc, restOfOverlap>>

\* the transaction of a save fails to commit after its request succeeded
TransactionAborts(i) ==
    /\ pc = "overlap"
    /\ calls[i].stage = "committing"
    /\ calls[i].name = "save"
    /\ Becomes(i, "done", calls[i].result, FALSE)
    /\ UNCHANGED <<pc, slot, restOfOverlap>>

InitOverlap ==
    /\ pc = "overlap"
    /\ OverlapIdle
    /\ StoreIdle
    /\ MergeIdle
    /\ SimplifyIdle
    /\ ChartIdle
    /\ CsvIdle
    /\ RangeIdle
    /\ FormatIdle
    /\ ToggleIdle

NextOverlap ==
    \/ \E data \in SavedDatasets : SaveStarted(data)
    \/ LoadStarted
    \/ \E i \in DOMAIN calls : OpenFails(i)
    \/ \E i \in DOMAIN calls : OpenSucceeds(i)
    \/ \E i \in DOMAIN calls : RequestSucceeds(i)
    \/ \E i \in DOMAIN calls : RequestFails(i)
    \/ \E i \in DOMAIN calls : TransactionCompletes(i)
    \/ \E i \in DOMAIN calls : TransactionAborts(i)

SpecOverlap == InitOverlap /\ [][NextOverlap]_vars

-----------------------------------------------------------------------------
(* Claims about overlapping storage calls *)

Saves == {i \in DOMAIN calls : calls[i].name = "save"}

AllDone == \A i \in DOMAIN calls : calls[i].stage = "done"

\* every load that has settled returned null or one saved dataset in whole
LoadsReturnWholeDatasets ==
    \A i \in DOMAIN calls :
        (calls[i].name = "load" /\ calls[i].result.state = "resolved") =>
            \/ calls[i].result = Resolved(JsNull)
            \/ \E j \in Saves : j < i /\ calls[i].result = Resolved(JsArray(calls[j].arg))

====
